---------------------------- MODULE Spec2Model ----------------------------
(***************************************************************************)
(* Cache-aside + notification pipeline of the inventory / price API.       *)
(*                                                                         *)
(* Every request is an asyncio task.  A task runs without interruption     *)
(* between two awaits, so each action below is one await of a service      *)
(* method together with the synchronous code that follows it up to the     *)
(* next await.  Every request has its own database session                 *)
(* (core/database.py get_db); the relational store and the Redis cache are *)
(* shared by all tasks.                                                    *)
(***************************************************************************)
EXTENDS Integers, Sequences, FiniteSets, TLC

(***************************************************************************)
(* Bounds of the model.                                                    *)
(***************************************************************************)
NumTasks == 2        \* concurrent request tasks
MaxItems == 2        \* inventory ids the store hands out
MaxRequests == 3     \* inventory requests started in one behaviour
MaxPriceRequests == 4  \* price requests started in one behaviour
MaxCacheFaults == 1    \* Redis faults the environment injects in one behaviour
NumConns == 3          \* WebSocket connections opened in one behaviour
MaxPublished == 3      \* messages published while the listening loop runs
MaxPollErrors == 2     \* get_message calls that raise in one behaviour
OlderRows == 1000      \* rows of table "inventory" stored before the rows the requests touch
MaxReads == 2          \* requests for a list page or a rollup in one behaviour
MaxMessages == 2       \* bus messages delivered to the subscriber in one behaviour
MaxPeerCloses == 1     \* WebSockets whose peer goes away in one behaviour
MaxQuantity == 12      \* largest quantity a derived property is evaluated on
MaxPrice == 10         \* largest price a history row is computed from on its own
MaxPercentTenths == 220    \* largest percentage, in tenths, a significance is computed from
MaxTableRows == 3      \* rows of a price table the current-price query is evaluated on
MaxTime == 3           \* latest effective_from of such a row; the query runs at MaxTime - 1

Tasks == 1..NumTasks
ItemIds == 1..MaxItems

(***************************************************************************)
(* Input domains.                                                          *)
(***************************************************************************)
Skus == {"PROD-001", "PROD-002"}
StockVals == {8, 50}
ReservedVals == {0, 5}
MinLevelDefault == 10

(***************************************************************************)
(* Values.                                                                 *)
(***************************************************************************)
NoRow == [kind |-> "none"]       \* Python None / no row in the table
Absent == [kind |-> "none"]      \* no value under a cache key

VARIABLES
    inventory,      \* table "inventory": id -> row or NoRow
    next_item_id,   \* next primary key of table "inventory"
    item_cache,     \* Redis keys inventory:item:{id}: id -> cached dict or Absent
    itask,          \* state of each inventory request task
    irequests,      \* number of inventory requests started
    inv_bus_failed, \* a publish of an inventory request has raised in this behaviour
    cache_faults,   \* Redis faults (a failing command, a corrupted entry) still to come
    prices,         \* table "prices": sequence of rows, the index is the primary key
    price_history,  \* table "price_history": sequence of committed rows
    price_cache,    \* Redis keys price:current:{item_id}: item id -> cached dict or Absent
    ptask,          \* state of each price request task
    prequests,      \* number of price requests started
    price_bus_failed, \* a publish of a price request has raised in this behaviour
    registry_keys,      \* keys of manager.active_connections, in insertion order
    active_connections, \* manager.active_connections: type -> list of connections
    conn,               \* each WebSocket and the endpoint task that serves it
    is_listening,       \* manager.is_listening
    subscriber_tasks,   \* number of subscriber tasks connect has created
    sub,                \* the subscriber task (manager.subscriber_task)
    messages,           \* every bus message the subscriber has polled, by id
    calc,               \* one evaluation of a derived property or a query: inputs and result
    bus,                \* the events the services have published, in order of publication
    listener,           \* the listening loop of the subscriber task and its five pubsubs
    rollup_cache,       \* Redis keys of list pages and rollups: key -> cached list or Absent
    rtask               \* the task of a request that reads a list page or a rollup

ivars == <<inventory, next_item_id, item_cache, itask, irequests, inv_bus_failed, cache_faults>>

pvars == <<prices, price_history, price_cache, ptask, prequests, price_bus_failed>>

wvars == <<registry_keys, active_connections, conn, is_listening, subscriber_tasks, sub,
           messages>>

vars == <<inventory, next_item_id, item_cache, itask, irequests, inv_bus_failed, cache_faults,
          prices, price_history, price_cache, ptask, prequests, price_bus_failed,
          registry_keys, active_connections, conn, is_listening, subscriber_tasks, sub,
          messages, calc, bus, listener, rollup_cache, rtask>>

(***************************************************************************)
(* models/inventory.py: the derived properties of a row.                   *)
(***************************************************************************)
is_low_stock(item) == item.available_quantity <= item.min_stock_level

\* A status that is out_of_stock at exactly zero only.
stock_status_exact_zero(item) ==
    IF item.available_quantity = 0 THEN "out_of_stock"
    ELSE IF is_low_stock(item) THEN "low_stock"
    ELSE "in_stock"

stock_status(item) ==
    IF item.available_quantity <= 0 THEN "out_of_stock"
    ELSE IF is_low_stock(item) THEN "low_stock"
    ELSE "in_stock"

(***************************************************************************)
(* schemas/inventory.py: request bodies.  data.set holds the names of the  *)
(* fields the client supplied (model_dump(exclude_unset=True) keeps        *)
(* exactly those); a field outside data.set carries a filler value.        *)
(***************************************************************************)
NoData ==
    [set |-> {}, sku |-> "", stock_quantity |-> 0, reserved_quantity |-> 0,
     available_quantity |-> 0, min_stock_level |-> 0]

CreateInputs ==
    { [NoData EXCEPT !.set = {"sku", "stock_quantity", "reserved_quantity", "min_stock_level"},
                     !.sku = s, !.stock_quantity = q, !.reserved_quantity = r,
                     !.min_stock_level = MinLevelDefault] :
        s \in Skus, q \in StockVals, r \in ReservedVals }

UpdateInputs ==
    { [NoData EXCEPT !.set = {"stock_quantity"}, !.stock_quantity = q] : q \in StockVals }
    \cup { [NoData EXCEPT !.set = {"reserved_quantity"}, !.reserved_quantity = r] : r \in ReservedVals }
    \cup { [NoData EXCEPT !.set = {"stock_quantity", "reserved_quantity"},
                          !.stock_quantity = q, !.reserved_quantity = r] :
             q \in StockVals, r \in ReservedVals }
    \cup { [NoData EXCEPT !.set = {"sku"}, !.sku = s] : s \in Skus }
    \cup { [NoData EXCEPT !.set = {"stock_quantity"}, !.stock_quantity = 0] }

(***************************************************************************)
(* core/redis_client.py set_cache + get_cache: json.dumps(value,           *)
(* default=str) of item.__dict__, then json.loads.  Integers and strings   *)
(* survive; created_at (a datetime) and the ORM's _sa_instance_state come  *)
(* back as strings; the value is a plain dict, so the properties of the    *)
(* Inventory class (is_low_stock, stock_status) are not part of it.        *)
(***************************************************************************)
JsonRoundTrip(item) ==
    [kind |-> "dict",
     id |-> item.id,
     sku |-> item.sku,
     stock_quantity |-> item.stock_quantity,
     reserved_quantity |-> item.reserved_quantity,
     available_quantity |-> item.available_quantity,
     min_stock_level |-> item.min_stock_level,
     created_at |-> [type |-> "str", at |-> item.created_at.at],
     sa_instance_state |-> "str"]

(***************************************************************************)
(* core/redis_client.py CACHE_KEYS: the keys of list pages and rollups     *)
(* that requests of the model read.  A page of the list is asked for with  *)
(* the default limit 100 or with 50, from the start or from row 1000; the  *)
(* low-stock rollup with the configured threshold 10 or with 15; the price *)
(* history of item 1 or 2 for the last 7 or 14 days.                       *)
(***************************************************************************)
ListSkips == {0, 1000}
ListLimits == {50, 100}
RollupThresholds == {10, 15}
HistoryItemIds == {1, 2}
HistoryDays == {7, 14}

\* "inventory:list:{skip}:{limit}"
InventoryListKey(skip, limit) == [kind |-> "inventory_list", skip |-> skip, limit |-> limit]

\* "alerts:low_stock:{threshold}"
LowStockKey(threshold) == [kind |-> "low_stock_items", threshold |-> threshold]

\* "price:history:{item_id}:{days}"
PriceHistoryKey(item_id, days) == [kind |-> "price_history", item_id |-> item_id, days |-> days]

RollupKeys ==
    {InventoryListKey(skip, limit) : skip \in ListSkips, limit \in ListLimits}
        \cup {LowStockKey(threshold) : threshold \in RollupThresholds}
        \cup {PriceHistoryKey(item_id, days) : item_id \in HistoryItemIds, days \in HistoryDays}

\* No request is reading a list page or a rollup.
IdleReader ==
    [pc |-> "idle", key |-> [kind |-> "none"], result |-> Absent, from_cache |-> FALSE,
     reads |-> 0]

(***************************************************************************)
(* Task records.                                                           *)
(***************************************************************************)
IdleTask ==
    [op |-> "none", pc |-> "idle", item_id |-> 0, data |-> NoData,
     existing |-> NoRow, result |-> NoRow, outcome |-> "none",
     bus_failed |-> FALSE, events |-> << >>, decode_warning |-> FALSE]

\* The request ends: return value or exception in outcome, locals dropped.
Finish(t, outcome, result) ==
    [t EXCEPT !.pc = "done", !.outcome = outcome, !.result = result,
              !.existing = NoRow, !.data = NoData]

SkuTaken(sku, except_id) ==
    \E i \in ItemIds : i # except_id /\ inventory[i] # NoRow /\ inventory[i].sku = sku

TouchesStock(data) ==
    "stock_quantity" \in data.set \/ "reserved_quantity" \in data.set

(***************************************************************************)
(* update_inventory, phase 4 (lines 318-324) up to the await of line 333.  *)
(* existing_item.stock_quantity and existing_item.reserved_quantity are    *)
(* both evaluated as the defaults of dict.get: on a cached dict the        *)
(* attribute access raises AttributeError.                                 *)
(***************************************************************************)
RecalcAvailable(t, found) ==
    IF TouchesStock(t.data)
    THEN IF found.kind = "dict"
         THEN Finish(t, "attribute_error", NoRow)
         ELSE LET new_stock == IF "stock_quantity" \in t.data.set
                               THEN t.data.stock_quantity ELSE found.stock_quantity
                  new_reserved == IF "reserved_quantity" \in t.data.set
                                  THEN t.data.reserved_quantity ELSE found.reserved_quantity
              IN [t EXCEPT !.pc = "db_update", !.existing = NoRow,
                           !.data.set = @ \cup {"available_quantity"},
                           !.data.available_quantity = new_stock - new_reserved]
    ELSE [t EXCEPT !.pc = "db_update", !.existing = NoRow]

(***************************************************************************)
(* What the caller of get_inventory_by_id does with its result up to the   *)
(* caller's next await: the endpoint get_inventory_item, update_inventory  *)
(* (lines 297-316) and delete_inventory (lines 384-386).                   *)
(***************************************************************************)
AfterGetById(t, found) ==
    CASE t.op = "get" ->
            IF found = NoRow THEN Finish(t, "absent", NoRow) ELSE Finish(t, "ok", found)
      [] t.op = "update" ->
            IF found = NoRow THEN Finish(t, "absent", NoRow)
            ELSE IF "sku" \in t.data.set
                 THEN IF found.kind = "dict"
                      THEN Finish(t, "attribute_error", NoRow)
                      ELSE IF t.data.sku # found.sku
                           THEN [t EXCEPT !.pc = "check_sku", !.existing = found]
                           ELSE RecalcAvailable(t, found)
                 ELSE RecalcAvailable(t, found)
      [] t.op = "delete" ->
            IF found = NoRow THEN Finish(t, "absent", NoRow)
            ELSE [t EXCEPT !.pc = "db_delete", !.existing = found]

(***************************************************************************)
(* A request arrives (api/v1/endpoints/inventory.py).                      *)
(***************************************************************************)
CanStart(p) ==
    /\ itask[p].pc \in {"idle", "done"}
    /\ irequests < MaxRequests

StartGet(p, id) ==
    /\ CanStart(p)
    /\ itask' = [itask EXCEPT ![p] = [IdleTask EXCEPT !.op = "get", !.pc = "get_cache", !.item_id = id]]
    /\ irequests' = irequests + 1
    /\ UNCHANGED <<inventory, next_item_id, item_cache, inv_bus_failed, cache_faults>>

StartUpdate(p, id, data) ==
    /\ CanStart(p)
    /\ itask' = [itask EXCEPT ![p] = [IdleTask EXCEPT !.op = "update", !.pc = "get_cache",
                                                     !.item_id = id, !.data = data]]
    /\ irequests' = irequests + 1
    /\ UNCHANGED <<inventory, next_item_id, item_cache, inv_bus_failed, cache_faults>>

StartDelete(p, id) ==
    /\ CanStart(p)
    /\ itask' = [itask EXCEPT ![p] = [IdleTask EXCEPT !.op = "delete", !.pc = "get_cache", !.item_id = id]]
    /\ irequests' = irequests + 1
    /\ UNCHANGED <<inventory, next_item_id, item_cache, inv_bus_failed, cache_faults>>

\* A create that forgets the reserved quantity.
CreateAvailableIgnoresReserved(data) == data.stock_quantity

\* create_inventory line 236.
CreateAvailable(data) == data.stock_quantity - data.reserved_quantity

\* create_inventory lines 235-242: available_quantity is computed before the first await.
StartCreate(p, data) ==
    /\ CanStart(p)
    /\ itask' = [itask EXCEPT ![p] =
                    [IdleTask EXCEPT !.op = "create", !.pc = "db_insert",
                                     !.data = [data EXCEPT !.set = @ \cup {"available_quantity"},
                                                           !.available_quantity = CreateAvailable(data)]]]
    /\ irequests' = irequests + 1
    /\ UNCHANGED <<inventory, next_item_id, item_cache, inv_bus_failed, cache_faults>>

(***************************************************************************)
(* core/redis_client.py: the outcome of one Redis command.  While the      *)
(* environment still has a fault to inject, a command may raise (the       *)
(* connection is refused or times out); set_cache, get_cache and           *)
(* delete_cache have no try around the command, and neither have their     *)
(* callers.                                                                *)
(***************************************************************************)
RedisOutcomes == IF cache_faults > 0 THEN BOOLEAN ELSE {TRUE}

Malformed == [kind |-> "malformed"]     \* a stored string that is not valid JSON

Raise(error) == [kind |-> "raise", error |-> error]

\* A get_cache whose json.loads is not guarded.
get_cache_decode_raises(stored, redis_ok) ==
    IF ~redis_ok THEN Raise("cache_error")
    ELSE IF stored = Malformed THEN Raise("decode_error")
    ELSE stored

\* get_cache lines 64-74: the stored value decoded; None when the key is
\* absent or when json.loads raises JSONDecodeError (a warning is logged).
get_cache(stored, redis_ok) ==
    IF ~redis_ok THEN Raise("cache_error")
    ELSE IF stored = Malformed THEN Absent
    ELSE stored

(***************************************************************************)
(* get_inventory_by_id, one action per await.                              *)
(***************************************************************************)
\* lines 183-188: await get_cache; a non-empty cached dict is returned as it is.
GetCache(p) ==
    /\ itask[p].pc = "get_cache"
    /\ \E redis_ok \in RedisOutcomes :
          LET stored == item_cache[itask[p].item_id]
              cached_result == get_cache(stored, redis_ok)
              t == [itask[p] EXCEPT !.decode_warning = (redis_ok /\ stored = Malformed)]
          IN /\ itask' = [itask EXCEPT ![p] =
                             IF cached_result.kind = "raise"
                             THEN Finish(t, cached_result.error, NoRow)
                             ELSE IF cached_result # Absent
                             THEN AfterGetById(t, cached_result)
                             ELSE [t EXCEPT !.pc = "db_select"]]
             /\ cache_faults' = IF redis_ok THEN cache_faults ELSE cache_faults - 1
    /\ UNCHANGED <<inventory, next_item_id, item_cache, irequests, inv_bus_failed>>

\* lines 191-195: await db.execute(select); a missing row is returned as None.
DbSelect(p) ==
    /\ itask[p].pc = "db_select"
    /\ LET item == inventory[itask[p].item_id]
       IN itask' = [itask EXCEPT ![p] =
                       IF item # NoRow
                       THEN [itask[p] EXCEPT !.pc = "set_cache", !.existing = item]
                       ELSE AfterGetById(itask[p], NoRow)]
    /\ UNCHANGED <<inventory, next_item_id, item_cache, irequests, inv_bus_failed, cache_faults>>

\* lines 197-200: await set_cache with the row this task read, then return the row.
SetCache(p) ==
    /\ itask[p].pc = "set_cache"
    /\ \E redis_ok \in RedisOutcomes :
          IF redis_ok
          THEN /\ item_cache' = [item_cache EXCEPT ![itask[p].item_id] = JsonRoundTrip(itask[p].existing)]
               /\ itask' = [itask EXCEPT ![p] = AfterGetById(itask[p], itask[p].existing)]
               /\ UNCHANGED cache_faults
          ELSE /\ itask' = [itask EXCEPT ![p] = Finish(itask[p], "cache_error", NoRow)]
               /\ cache_faults' = cache_faults - 1
               /\ UNCHANGED item_cache
    /\ UNCHANGED <<inventory, next_item_id, irequests, inv_bus_failed>>

(***************************************************************************)
(* The table "inventory" (models/inventory.py).                            *)
(***************************************************************************)
\* A table whose sku column carries no unique constraint.
UniqueSkuNotEnforced(sku, except_id) == FALSE

\* Column sku is unique=True: the store refuses a second row with the same sku.
UniqueSkuViolated(sku, except_id) == SkuTaken(sku, except_id)

NewRow(id, data) ==
    [kind |-> "row", id |-> id, sku |-> data.sku,
     stock_quantity |-> data.stock_quantity,
     reserved_quantity |-> data.reserved_quantity,
     available_quantity |-> data.available_quantity,
     min_stock_level |-> data.min_stock_level,
     created_at |-> [type |-> "datetime", at |-> id]]

\* UPDATE inventory SET <the keys of update_data> WHERE id = ...
ApplyUpdate(row, data) ==
    [row EXCEPT
        !.sku = IF "sku" \in data.set THEN data.sku ELSE @,
        !.stock_quantity = IF "stock_quantity" \in data.set THEN data.stock_quantity ELSE @,
        !.reserved_quantity = IF "reserved_quantity" \in data.set THEN data.reserved_quantity ELSE @,
        !.available_quantity = IF "available_quantity" \in data.set THEN data.available_quantity ELSE @,
        !.min_stock_level = IF "min_stock_level" \in data.set THEN data.min_stock_level ELSE @]

(***************************************************************************)
(* create_inventory lines 244-246: add, commit, refresh.  A duplicate sku  *)
(* makes the commit raise IntegrityError, which the endpoint               *)
(* create_inventory_item turns into the 409 SKU_ALREADY_EXISTS response.   *)
(***************************************************************************)
DbInsert(p) ==
    /\ itask[p].pc = "db_insert"
    /\ next_item_id <= MaxItems
    /\ IF UniqueSkuViolated(itask[p].data.sku, 0)
       THEN /\ itask' = [itask EXCEPT ![p] = Finish(itask[p], "conflict", NoRow)]
            /\ UNCHANGED <<inventory, next_item_id>>
       ELSE LET db_inventory == NewRow(next_item_id, itask[p].data)
            IN /\ inventory' = [inventory EXCEPT ![next_item_id] = db_inventory]
               /\ next_item_id' = next_item_id + 1
               /\ itask' = [itask EXCEPT ![p] = [itask[p] EXCEPT !.pc = "invalidate",
                                                                   !.item_id = next_item_id,
                                                                   !.result = db_inventory]]
    /\ UNCHANGED <<item_cache, irequests, inv_bus_failed, cache_faults>>

\* update_inventory lines 308-316: await check_sku_exists (lines 146-151), then phase 4.
CheckSku(p) ==
    /\ itask[p].pc = "check_sku"
    /\ itask' = [itask EXCEPT ![p] =
                    IF SkuTaken(itask[p].data.sku, 0)
                    THEN Finish(itask[p], "conflict", NoRow)
                    ELSE RecalcAvailable(itask[p], itask[p].existing)]
    /\ UNCHANGED <<inventory, next_item_id, item_cache, irequests, inv_bus_failed, cache_faults>>

(***************************************************************************)
(* update_inventory lines 327-335: UPDATE ... RETURNING and commit.  The   *)
(* statement writes the keys of update_data into the row as it is now; no  *)
(* row (deleted meanwhile) gives updated_item = None, which is returned.   *)
(***************************************************************************)
DbUpdate(p) ==
    /\ itask[p].pc = "db_update"
    /\ LET id == itask[p].item_id
           data == itask[p].data
       IN IF inventory[id] = NoRow
          THEN /\ itask' = [itask EXCEPT ![p] = Finish(itask[p], "absent", NoRow)]
               /\ UNCHANGED inventory
          ELSE IF "sku" \in data.set /\ UniqueSkuViolated(data.sku, id)
          THEN /\ itask' = [itask EXCEPT ![p] = Finish(itask[p], "conflict", NoRow)]
               /\ UNCHANGED inventory
          ELSE LET updated_item == ApplyUpdate(inventory[id], data)
               IN /\ inventory' = [inventory EXCEPT ![id] = updated_item]
                  /\ itask' = [itask EXCEPT ![p] = [itask[p] EXCEPT !.pc = "invalidate",
                                                                      !.result = updated_item]]
    /\ UNCHANGED <<next_item_id, item_cache, irequests, inv_bus_failed, cache_faults>>

\* delete_inventory lines 389-391: DELETE and commit.
DbDelete(p) ==
    /\ itask[p].pc = "db_delete"
    /\ inventory' = [inventory EXCEPT ![itask[p].item_id] = NoRow]
    /\ itask' = [itask EXCEPT ![p].pc = "invalidate"]
    /\ UNCHANGED <<next_item_id, item_cache, irequests, inv_bus_failed, cache_faults>>

(***************************************************************************)
(* _invalidate_inventory_caches (lines 560-572) and the caller's code up   *)
(* to its next await.  create passes no item_id, so it deletes no item     *)
(* key (it still deletes the list keys, and a failing delete raises).      *)
(* delete_inventory hands existing_item to _send_inventory_update, which   *)
(* reads inventory.id while it builds the message (line 609): a cached     *)
(* dict raises AttributeError there.                                       *)
(***************************************************************************)
InvalidatedKeys(t) == IF t.op = "create" THEN {} ELSE {t.item_id}

\* lines 564-572: range(0, 1000, 100) with limit=100, and the thresholds
\* [5, 10, 20, 50]; the keys of the model among them.
InvalidatedRollupKeys ==
    { k \in RollupKeys :
        \/ k.kind = "inventory_list" /\ k.limit = 100
                                     /\ k.skip \in {100 * n : n \in 0..9}
        \/ k.kind = "low_stock_items" /\ k.threshold \in {5, 10, 20, 50} }

AfterInvalidate(t) ==
    CASE t.op = "create" -> [t EXCEPT !.pc = "send_update"]
      [] t.op = "update" ->
            IF is_low_stock(t.result)
            THEN [t EXCEPT !.pc = "send_alert"]
            ELSE [t EXCEPT !.pc = "send_update"]
      [] t.op = "delete" ->
            IF t.existing.kind = "dict"
            THEN Finish(t, "attribute_error", NoRow)
            ELSE [t EXCEPT !.pc = "send_update"]

Invalidate(p) ==
    /\ itask[p].pc = "invalidate"
    /\ \E redis_ok \in RedisOutcomes :
          IF redis_ok
          THEN /\ item_cache' = [i \in ItemIds |->
                                  IF i \in InvalidatedKeys(itask[p]) THEN Absent ELSE item_cache[i]]
               /\ rollup_cache' = [k \in RollupKeys |->
                                    IF k \in InvalidatedRollupKeys THEN Absent
                                    ELSE rollup_cache[k]]
               /\ itask' = [itask EXCEPT ![p] = AfterInvalidate(itask[p])]
               /\ UNCHANGED cache_faults
          ELSE /\ itask' = [itask EXCEPT ![p] = Finish(itask[p], "cache_error", NoRow)]
               /\ cache_faults' = cache_faults - 1
               /\ UNCHANGED <<item_cache, rollup_cache>>
    /\ UNCHANGED <<inventory, next_item_id, irequests, inv_bus_failed>>

(***************************************************************************)
(* services/websocket_manager.py send_stock_alert / send_inventory_update: *)
(* await redis_manager.publish_message, with no try around it, then a      *)
(* broadcast to the connections of a ConnectionManager() made for this one *)
(* call, which has none.  A failing publish raises out of the service      *)
(* method.                                                                 *)
(***************************************************************************)
PublishRaises(t) == Finish([t EXCEPT !.bus_failed = TRUE], "bus_error", NoRow)

\* An alert that never tells out of stock from low stock.
alert_level_warning_only(item) == "warning"

\* _send_stock_alert line 652.
alert_level(item) == IF item.available_quantity <= 0 THEN "critical" ELSE "warning"

\* _send_stock_alert lines 650-662.
SendStockAlert(p) ==
    /\ itask[p].pc = "send_alert"
    /\ \E bus_ok \in BOOLEAN :
          /\ inv_bus_failed' = (inv_bus_failed \/ ~bus_ok)
          /\ itask' = [itask EXCEPT ![p] =
                       IF bus_ok
                       THEN [itask[p] EXCEPT
                                !.pc = "send_update",
                                !.events = Append(@, [type |-> "stock_alert",
                                                      action |-> alert_level(itask[p].result)])]
                       ELSE PublishRaises(itask[p])]
    /\ UNCHANGED <<inventory, next_item_id, item_cache, irequests, cache_faults>>

EventAction(t) ==
    CASE t.op = "create" -> "created"
      [] t.op = "update" -> "updated"
      [] t.op = "delete" -> "deleted"

\* _send_inventory_update lines 604-617, then the return of the service method.
SendInventoryUpdate(p) ==
    /\ itask[p].pc = "send_update"
    /\ \E bus_ok \in BOOLEAN :
          /\ inv_bus_failed' = (inv_bus_failed \/ ~bus_ok)
          /\ itask' = [itask EXCEPT ![p] =
                       IF bus_ok
                       THEN Finish([itask[p] EXCEPT
                                       !.events = Append(@, [type |-> "inventory_update",
                                                             action |-> EventAction(itask[p])])],
                                   "ok", itask[p].result)
                       ELSE PublishRaises(itask[p])]
    /\ UNCHANGED <<inventory, next_item_id, item_cache, irequests, cache_faults>>

(***************************************************************************)
(* The inventory service under concurrent requests.                        *)
(***************************************************************************)
\* The row of the store when the service starts: the item of the end-to-end
\* scenario (sku PROD-001, stock 50, reserved 5), as create_inventory stores it.
FirstItem ==
    NewRow(1, [NoData EXCEPT !.sku = "PROD-001", !.stock_quantity = 50,
                             !.reserved_quantity = 5, !.available_quantity = 45,
                             !.min_stock_level = MinLevelDefault])

InitInvStore ==
    /\ inventory = [i \in ItemIds |-> IF i = 1 THEN FirstItem ELSE NoRow]
    /\ next_item_id = 2
    /\ item_cache = [i \in ItemIds |-> Absent]
    /\ rollup_cache = [k \in RollupKeys |-> Absent]
    /\ rtask = IdleReader
    /\ itask = [p \in Tasks |-> IdleTask]
    /\ inv_bus_failed = FALSE

\* Redis is healthy: no fault is to come.
InitInv == InitInvStore /\ irequests = 0 /\ cache_faults = 0

\* An external writer puts a string that is not JSON under inventory:item:{id}.
CorruptEntry(id) ==
    /\ cache_faults > 0
    /\ item_cache' = [item_cache EXCEPT ![id] = Malformed]
    /\ cache_faults' = cache_faults - 1
    /\ UNCHANGED <<inventory, next_item_id, itask, irequests, inv_bus_failed>>

NextInv ==
    \E p \in Tasks :
        \/ \E id \in ItemIds : StartGet(p, id) /\ UNCHANGED <<pvars, wvars, calc, bus, listener, rollup_cache, rtask>>
        \/ \E data \in CreateInputs : StartCreate(p, data) /\ UNCHANGED <<pvars, wvars, calc, bus, listener, rollup_cache, rtask>>
        \/ \E id \in ItemIds, data \in UpdateInputs : StartUpdate(p, id, data) /\ UNCHANGED <<pvars, wvars, calc, bus, listener, rollup_cache, rtask>>
        \/ \E id \in ItemIds : StartDelete(p, id) /\ UNCHANGED <<pvars, wvars, calc, bus, listener, rollup_cache, rtask>>
        \/ GetCache(p) /\ UNCHANGED <<pvars, wvars, calc, bus, listener, rollup_cache, rtask>>
        \/ DbSelect(p) /\ UNCHANGED <<pvars, wvars, calc, bus, listener, rollup_cache, rtask>>
        \/ SetCache(p) /\ UNCHANGED <<pvars, wvars, calc, bus, listener, rollup_cache, rtask>>
        \/ DbInsert(p) /\ UNCHANGED <<pvars, wvars, calc, bus, listener, rollup_cache, rtask>>
        \/ CheckSku(p) /\ UNCHANGED <<pvars, wvars, calc, bus, listener, rollup_cache, rtask>>
        \/ DbUpdate(p) /\ UNCHANGED <<pvars, wvars, calc, bus, listener, rollup_cache, rtask>>
        \/ DbDelete(p) /\ UNCHANGED <<pvars, wvars, calc, bus, listener, rollup_cache, rtask>>
        \/ Invalidate(p) /\ UNCHANGED <<pvars, wvars, calc, bus, listener, rtask>>
        \/ SendStockAlert(p) /\ UNCHANGED <<pvars, wvars, calc, bus, listener, rollup_cache, rtask>>
        \/ SendInventoryUpdate(p) /\ UNCHANGED <<pvars, wvars, calc, bus, listener, rollup_cache, rtask>>

(***************************************************************************)
(* schemas/inventory.py InventoryResponse, the contract a result of        *)
(* get_inventory_by_id is rendered through (response_model of the          *)
(* endpoint).  A typed row is read by attribute (from_attributes=True),    *)
(* properties included; a dict is read by key: the datetime string is      *)
(* parsed back, unknown keys are dropped, and the absent keys is_low_stock *)
(* and stock_status take the field defaults False and "in_stock".          *)
(***************************************************************************)
InventoryResponse(result) ==
    [id |-> result.id,
     sku |-> result.sku,
     stock_quantity |-> result.stock_quantity,
     reserved_quantity |-> result.reserved_quantity,
     available_quantity |-> result.available_quantity,
     min_stock_level |-> result.min_stock_level,
     created_at |-> [type |-> "datetime", at |-> result.created_at.at],
     is_low_stock |-> IF result.kind = "row" THEN is_low_stock(result) ELSE FALSE,
     stock_status |-> IF result.kind = "row" THEN stock_status(result) ELSE "in_stock"]

(***************************************************************************)
(* Properties of the inventory service.                                    *)
(***************************************************************************)
\* No update or delete of item id is between its arrival and its return, and
\* none has ended in an exception.
NoMutationInFlight(id) ==
    \A q \in Tasks :
        (itask[q].op \in {"update", "delete"} /\ itask[q].item_id = id) =>
            (itask[q].pc = "done" /\ itask[q].outcome \in {"ok", "absent"})

\* C1: in every reachable state every stored inventory item satisfies
\* available_quantity = stock_quantity - reserved_quantity, also after
\* interleaved updates of the same item.
C1_AvailableIsStockMinusReserved ==
    \A i \in ItemIds :
        inventory[i] # NoRow =>
            inventory[i].available_quantity =
                inventory[i].stock_quantity - inventory[i].reserved_quantity

\* C2: a create with stock S and reserved R stores a row with
\* available_quantity = S - R and returns that row.
C2_CreateStoresStockMinusReserved ==
    [][\A p \in Tasks :
          LET t == itask[p]
              u == itask'[p]
          IN /\ (t.op = "create" /\ t.pc = "db_insert" /\ u.pc = "invalidate") =>
                    /\ inventory'[u.item_id] # NoRow
                    /\ inventory'[u.item_id].stock_quantity = t.data.stock_quantity
                    /\ inventory'[u.item_id].reserved_quantity = t.data.reserved_quantity
                    /\ inventory'[u.item_id].available_quantity =
                           t.data.stock_quantity - t.data.reserved_quantity
                    /\ u.result = inventory'[u.item_id]
             /\ (t.op = "create" /\ t.pc = "send_update" /\ u.pc = "done" /\ u.outcome = "ok") =>
                    /\ u.result = t.result
                    /\ u.result.available_quantity =
                           t.data.stock_quantity - t.data.reserved_quantity]_vars

\* C2 witness: a create of stock 50, reserved 5 has returned an item with
\* available 45 and stock_status in_stock.
C2_Witness ==
    \E p \in Tasks :
        /\ itask[p].op = "create" /\ itask[p].pc = "done" /\ itask[p].outcome = "ok"
        /\ itask[p].result.stock_quantity = 50
        /\ itask[p].result.reserved_quantity = 5
        /\ itask[p].result.available_quantity = 45
        /\ stock_status(itask[p].result) = "in_stock"

\* C3: an update of an existing item, cached or not, that supplies
\* stock_quantity or reserved_quantity goes on to write available_quantity =
\* (new or existing stock) - (new or existing reserved); an update that
\* supplies neither leaves available_quantity as it is.
C3_UpdateRecomputesAvailable ==
    [][\A p \in Tasks :
          LET t == itask[p]
              u == itask'[p]
              hit == t.pc = "get_cache" /\ item_cache[t.item_id] # Absent
              found == IF t.pc = "get_cache" THEN item_cache[t.item_id] ELSE t.existing
              new_stock == IF "stock_quantity" \in t.data.set
                           THEN t.data.stock_quantity ELSE found.stock_quantity
              new_reserved == IF "reserved_quantity" \in t.data.set
                              THEN t.data.reserved_quantity ELSE found.reserved_quantity
          IN /\ (t.op = "update" /\ u # t /\ (hit \/ t.pc = "set_cache")
                   /\ TouchesStock(t.data)) =>
                    /\ u.pc = "db_update"
                    /\ u.data.available_quantity = new_stock - new_reserved
             /\ (t.op = "update" /\ t.pc = "db_update" /\ u.pc = "invalidate") =>
                    inventory'[t.item_id].available_quantity =
                        IF TouchesStock(t.data)
                        THEN t.data.available_quantity
                        ELSE inventory[t.item_id].available_quantity]_vars

\* C4: the store never holds two items with the same sku, and a create whose
\* sku is already stored fails with the Conflict condition and adds no row.
C4_SkuUnique ==
    /\ [](\A i, j \in ItemIds :
            (i # j /\ inventory[i] # NoRow /\ inventory[j] # NoRow) =>
                inventory[i].sku # inventory[j].sku)
    /\ [][\A p \in Tasks :
             (itask[p].pc = "db_insert" /\ itask'[p].pc # "db_insert"
                /\ SkuTaken(itask[p].data.sku, 0)) =>
                    /\ itask'[p].pc = "done"
                    /\ itask'[p].outcome = "conflict"
                    /\ inventory' = inventory]_vars

\* C4 witness: a create was refused as a conflict while another item holds a
\* sku and both ids are in use.
C4_Witness ==
    /\ \E p \in Tasks :
          itask[p].op = "create" /\ itask[p].pc = "done" /\ itask[p].outcome = "conflict"
    /\ \A i \in ItemIds : inventory[i] # NoRow

\* C7: while no publish has failed, a getById(id) that is answered when no
\* update or delete of id is in flight returns the stored state of the item
\* (absent after a delete), never a stale cached entry.
C7_GetAfterMutationIsFresh ==
    [][\A p \in Tasks :
          LET t == itask[p]
          IN (t.op = "get" /\ t.pc = "get_cache" /\ itask'[p].pc = "done"
                /\ ~inv_bus_failed /\ NoMutationInFlight(t.item_id)) =>
                    /\ inventory[t.item_id] # NoRow
                    /\ itask'[p].result = JsonRoundTrip(inventory[t.item_id])]_vars

\* C9: with no mutation in between, the getById answered from the store
\* (cache miss) and the getById answered from the cache (cache hit) carry
\* the same field values.
C9_HitAndMissSameContent ==
    \A p, q \in Tasks :
        ( /\ itask[p].op = "get" /\ itask[p].pc = "done" /\ itask[p].outcome = "ok"
          /\ itask[q].op = "get" /\ itask[q].pc = "done" /\ itask[q].outcome = "ok"
          /\ itask[p].item_id = itask[q].item_id
          /\ itask[p].result.kind = "row"
          /\ itask[q].result.kind = "dict"
          /\ itask[q].result = JsonRoundTrip(itask[p].result) )
        => InventoryResponse(itask[p].result) = InventoryResponse(itask[q].result)

\* C10 (inventory mutations): a failing publish is swallowed, the mutation
\* returns success.
C10_BusFailureSwallowed ==
    \A p \in Tasks :
        (itask[p].pc = "done" /\ itask[p].bus_failed) => itask[p].outcome = "ok"

(***************************************************************************)
(* services/price_service.py.  Requests carry the default is_active=True   *)
(* of schemas/price.py PriceBase; an update supplies selling_price.        *)
(***************************************************************************)
PriceItemIds == {1}
PriceVals == {100, 105, 130}
PRICE_CHANGE_THRESHOLD_PERCENT == 5     \* settings.PRICE_CHANGE_THRESHOLD * 100
MajorChangePercent == 20

\* models/price.py Price: is_active defaults to True, effective_from is the
\* time of the insert (server_default now(), here the insertion order),
\* effective_until is NULL.
PriceRow(id, item_id, selling_price) ==
    [kind |-> "row", id |-> id, inventory_id |-> item_id,
     selling_price |-> selling_price, is_active |-> TRUE,
     effective_from |-> [type |-> "datetime", at |-> id],
     effective_until |-> "NULL"]

\* set_cache + get_cache of price.__dict__: a plain dict, datetimes as strings.
PriceJsonRoundTrip(price) ==
    [kind |-> "dict", id |-> price.id, inventory_id |-> price.inventory_id,
     selling_price |-> price.selling_price, is_active |-> price.is_active,
     effective_from |-> [type |-> "str", at |-> price.effective_from.at],
     effective_until |-> price.effective_until]

ActivePricesIn(rows, item_id) ==
    { i \in 1..Len(rows) : rows[i].inventory_id = item_id /\ rows[i].is_active }

ActivePrices(item_id) == ActivePricesIn(prices, item_id)

\* get_current_price lines 168-176: the rows of the item that are active and
\* whose effective_from is not after utcnow.
EffectiveIn(rows, item_id, utcnow) ==
    { i \in ActivePricesIn(rows, item_id) : rows[i].effective_from.at <= utcnow }

\* lines 177-181: order_by(effective_from.desc()), limit(1),
\* scalar_one_or_none.  The query does not order rows of equal
\* effective_from: each of them can be the one row that is returned.
QueryCurrentPrice(rows, item_id, utcnow) ==
    IF EffectiveIn(rows, item_id, utcnow) = {} THEN {NoRow}
    ELSE { rows[i] : i \in { k \in EffectiveIn(rows, item_id, utcnow) :
                                \A j \in EffectiveIn(rows, item_id, utcnow) :
                                    rows[j].effective_from.at <= rows[k].effective_from.at } }

\* get_current_price lines 168-181 on the price table: every stored
\* effective_from is the time of an insert that has happened, one per row.
CurrentPriceRow(item_id) ==
    IF ActivePrices(item_id) = {} THEN NoRow
    ELSE prices[CHOOSE i \in ActivePrices(item_id) :
                    \A j \in ActivePrices(item_id) :
                        prices[j].effective_from.at <= prices[i].effective_from.at]

\* abs((new - old) / old * 100) >= settings.PRICE_CHANGE_THRESHOLD * 100, in integers.
AbsDiff(a, b) == IF a >= b THEN a - b ELSE b - a

IsSignificant(old_price, new_price) ==
    AbsDiff(new_price, old_price) * 100 >= PRICE_CHANGE_THRESHOLD_PERCENT * old_price

\* A rule that never reports a major change.
AlertTypeByDirectionOnly(old_price, new_price) ==
    IF new_price > old_price THEN "significant_increase" ELSE "significant_decrease"

\* _send_price_change_alert lines 607-612.
AlertType(old_price, new_price) ==
    IF AbsDiff(new_price, old_price) * 100 >= MajorChangePercent * old_price THEN "major_change"
    ELSE IF new_price > old_price THEN "significant_increase"
    ELSE "significant_decrease"

\* _send_price_change_alert lines 615-625: the alert that is published.
PriceChangeAlert(old_price, new_price) ==
    [type |-> "price_alert", action |-> AlertType(old_price, new_price),
     old_price |-> old_price, new_price |-> new_price]

NoHistory == [kind |-> "none"]

\* A commit that overwrites the latest history row instead of adding one.
InsertHistoryOverLatest(history, row) ==
    IF history = << >> THEN << row >> ELSE [history EXCEPT ![Len(history)] = row]

\* self.db.add(history_record) (line 481) and the commit of the caller
\* (line 260): an INSERT into price_history.
InsertHistory(history, row) == Append(history, row)

\* A percentage is kept exact, as the fraction num / den with den > 0.
\* A percentage with no guard on the old price.
price_change_percent_unguarded(price_change_amount, old_price) ==
    [num |-> IF old_price >= 0 THEN price_change_amount * 100
             ELSE 0 - price_change_amount * 100,
     den |-> IF old_price > 0 THEN old_price
             ELSE IF old_price < 0 THEN 0 - old_price ELSE 1]

\* _record_price_history line 469.
price_change_percent(price_change_amount, old_price) ==
    IF old_price > 0 THEN [num |-> price_change_amount * 100, den |-> old_price]
    ELSE [num |-> 0, den |-> 1]

\* _record_price_history lines 468-479: the row that is added to the session.
record_price_history(inventory_id, old_price, new_price) ==
    [kind |-> "history", inventory_id |-> inventory_id,
     old_price |-> old_price, new_price |-> new_price,
     price_change_percent |-> price_change_percent(new_price - old_price, old_price),
     price_change_amount |-> new_price - old_price]

IdlePriceTask ==
    [op |-> "none", pc |-> "idle", item_id |-> 0, selling_price |-> 0,
     existing |-> NoRow, new_id |-> 0, old_price |-> 0, pending |-> NoHistory,
     result |-> NoRow, outcome |-> "none", bus_failed |-> FALSE, events |-> << >>]

\* The request ends; its session is closed, what it had not committed is gone.
\* existing and old_price stay as the record of what the request had read.
PriceFinish(t, outcome, result) ==
    [t EXCEPT !.pc = "done", !.outcome = outcome, !.result = result,
              !.pending = NoHistory]

(***************************************************************************)
(* What the caller of get_current_price does with its result up to its     *)
(* next await: the endpoint, create_or_update_price (lines 234-242) and    *)
(* update_price (lines 276-283).  existing_price.is_active = False and     *)
(* current_price.selling_price raise AttributeError on a cached dict.      *)
(***************************************************************************)
AfterGetCurrentPrice(t, found) ==
    CASE t.op = "current" ->
            IF found = NoRow THEN PriceFinish(t, "absent", NoRow)
            ELSE PriceFinish(t, "ok", found)
      [] t.op = "create_or_update" ->
            IF found = NoRow THEN [t EXCEPT !.pc = "commit", !.existing = NoRow]
            ELSE IF found.kind = "dict" THEN PriceFinish(t, "attribute_error", NoRow)
            ELSE [t EXCEPT !.pc = "commit_deactivate", !.existing = found]
      [] t.op = "update" ->
            IF found = NoRow THEN PriceFinish(t, "absent", NoRow)
            ELSE IF found.kind = "dict" THEN PriceFinish(t, "attribute_error", NoRow)
            ELSE [t EXCEPT !.pc = "db_update", !.existing = found,
                           !.old_price = found.selling_price]

CanStartPrice(p) ==
    /\ ptask[p].pc \in {"idle", "done"}
    /\ prequests < MaxPriceRequests

StartCurrentPrice(p, item_id) ==
    /\ CanStartPrice(p)
    /\ ptask' = [ptask EXCEPT ![p] = [IdlePriceTask EXCEPT !.op = "current", !.pc = "get_cache",
                                                          !.item_id = item_id]]
    /\ prequests' = prequests + 1
    /\ UNCHANGED <<prices, price_history, price_cache, price_bus_failed>>

StartCreateOrUpdatePrice(p, item_id, selling_price) ==
    /\ CanStartPrice(p)
    /\ ptask' = [ptask EXCEPT ![p] = [IdlePriceTask EXCEPT !.op = "create_or_update",
                                                          !.pc = "get_cache", !.item_id = item_id,
                                                          !.selling_price = selling_price]]
    /\ prequests' = prequests + 1
    /\ UNCHANGED <<prices, price_history, price_cache, price_bus_failed>>

StartUpdatePrice(p, item_id, selling_price) ==
    /\ CanStartPrice(p)
    /\ ptask' = [ptask EXCEPT ![p] = [IdlePriceTask EXCEPT !.op = "update", !.pc = "get_cache",
                                                          !.item_id = item_id,
                                                          !.selling_price = selling_price]]
    /\ prequests' = prequests + 1
    /\ UNCHANGED <<prices, price_history, price_cache, price_bus_failed>>

(***************************************************************************)
(* get_current_price, one action per await.                                *)
(***************************************************************************)
\* lines 160-165: await get_cache; a cached dict is returned as it is.
PriceGetCache(p) ==
    /\ ptask[p].pc = "get_cache"
    /\ LET cached_result == price_cache[ptask[p].item_id]
       IN ptask' = [ptask EXCEPT ![p] =
                       IF cached_result # Absent
                       THEN AfterGetCurrentPrice(ptask[p], cached_result)
                       ELSE [ptask[p] EXCEPT !.pc = "db_select"]]
    /\ UNCHANGED <<prices, price_history, price_cache, prequests, price_bus_failed>>

\* lines 168-181: await db.execute(select).
PriceDbSelect(p) ==
    /\ ptask[p].pc = "db_select"
    /\ \E price \in QueryCurrentPrice(prices, ptask[p].item_id, Len(prices)) :
          ptask' = [ptask EXCEPT ![p] =
                       IF price # NoRow
                       THEN [ptask[p] EXCEPT !.pc = "set_cache", !.existing = price]
                       ELSE AfterGetCurrentPrice(ptask[p], NoRow)]
    /\ UNCHANGED <<prices, price_history, price_cache, prequests, price_bus_failed>>

\* lines 183-188: await set_cache with the row this task read, then return it.
PriceSetCache(p) ==
    /\ ptask[p].pc = "set_cache"
    /\ price_cache' = [price_cache EXCEPT ![ptask[p].item_id] = PriceJsonRoundTrip(ptask[p].existing)]
    /\ ptask' = [ptask EXCEPT ![p] = AfterGetCurrentPrice(ptask[p], ptask[p].existing)]
    /\ UNCHANGED <<prices, price_history, prequests, price_bus_failed>>

(***************************************************************************)
(* create_or_update_price lines 242-258 when a current price was found:    *)
(* the first commit flushes the deactivation of the row this task read     *)
(* (UPDATE by primary key) and the INSERT of the new row; refresh; then    *)
(* _record_price_history adds the history row to the session without       *)
(* committing it, and the change is compared with the threshold.           *)
(***************************************************************************)
PriceCommitDeactivate(p) ==
    /\ ptask[p].pc = "commit_deactivate"
    /\ LET t == ptask[p]
           existing_price == t.existing
           new_id == Len(prices) + 1
           db_price == PriceRow(new_id, t.item_id, t.selling_price)
       IN /\ prices' = Append([prices EXCEPT ![existing_price.id] =
                                   [@ EXCEPT !.is_active = FALSE, !.effective_until = "utcnow"]],
                              db_price)
          /\ ptask' = [ptask EXCEPT ![p] =
                [t EXCEPT !.pc = IF IsSignificant(existing_price.selling_price, db_price.selling_price)
                                 THEN "send_alert" ELSE "commit",
                          !.new_id = new_id,
                          !.result = db_price,
                          !.old_price = existing_price.selling_price,
                          !.pending = record_price_history(t.item_id,
                                                           existing_price.selling_price,
                                                           db_price.selling_price)]]
    /\ UNCHANGED <<price_history, price_cache, prequests, price_bus_failed>>

(***************************************************************************)
(* _send_price_change_alert lines 603-627 and send_price_alert: publish    *)
(* with no try around it.  A failing publish raises out of the service     *)
(* method; the session is closed with the history row still uncommitted.   *)
(***************************************************************************)
PricePublishRaises(t) == PriceFinish([t EXCEPT !.bus_failed = TRUE], "bus_error", NoRow)

PriceSendAlert(p) ==
    /\ ptask[p].pc = "send_alert"
    /\ \E bus_ok \in BOOLEAN :
          /\ price_bus_failed' = (price_bus_failed \/ ~bus_ok)
          /\ ptask' = [ptask EXCEPT ![p] =
                       IF bus_ok
                       THEN [ptask[p] EXCEPT
                                !.pc = IF ptask[p].op = "create_or_update" THEN "commit" ELSE "invalidate",
                                !.events = Append(@, PriceChangeAlert(ptask[p].old_price,
                                                                      ptask[p].result.selling_price))]
                       ELSE PricePublishRaises(ptask[p])]
    /\ UNCHANGED <<prices, price_history, price_cache, prequests>>

(***************************************************************************)
(* create_or_update_price lines 260-261: commit and refresh.  With no      *)
(* prior price this commit inserts the new row; with one it persists the   *)
(* pending history row.  refresh reads the new row as it is stored now.    *)
(***************************************************************************)
PriceCommit(p) ==
    /\ ptask[p].pc = "commit"
    /\ LET t == ptask[p]
       IN IF t.existing = NoRow
          THEN LET new_id == Len(prices) + 1
                   db_price == PriceRow(new_id, t.item_id, t.selling_price)
               IN /\ prices' = Append(prices, db_price)
                  /\ ptask' = [ptask EXCEPT ![p] = [t EXCEPT !.pc = "invalidate",
                                                             !.new_id = new_id,
                                                             !.result = db_price]]
                  /\ UNCHANGED price_history
          ELSE /\ price_history' = InsertHistory(price_history, t.pending)
               /\ ptask' = [ptask EXCEPT ![p] = [t EXCEPT !.pc = "invalidate",
                                                          !.pending = NoHistory,
                                                          !.result = prices[t.new_id]]]
               /\ UNCHANGED prices
    /\ UNCHANGED <<price_cache, prequests, price_bus_failed>>

(***************************************************************************)
(* update_price lines 285-310: UPDATE ... WHERE id = current_price.id      *)
(* RETURNING and commit; the history row is added to the session, and no   *)
(* commit follows it before the method returns.                            *)
(***************************************************************************)
PriceDbUpdate(p) ==
    /\ ptask[p].pc = "db_update"
    /\ LET t == ptask[p]
           updated_price == [prices[t.existing.id] EXCEPT !.selling_price = t.selling_price]
       IN /\ prices' = [prices EXCEPT ![t.existing.id] = updated_price]
          /\ ptask' = [ptask EXCEPT ![p] =
                [t EXCEPT !.pc = IF IsSignificant(t.old_price, updated_price.selling_price)
                                 THEN "send_alert" ELSE "invalidate",
                          !.result = updated_price,
                          !.pending = record_price_history(t.item_id, t.old_price,
                                                           updated_price.selling_price)]]
    /\ UNCHANGED <<price_history, price_cache, prequests, price_bus_failed>>

\* lines 514-516: for days in [7, 30, 90]; the keys of the model among them.
InvalidatedHistoryKeys(item_id) ==
    { k \in RollupKeys :
        k.kind = "price_history" /\ k.item_id = item_id /\ k.days \in {7, 30, 90} }

\* _invalidate_price_caches lines 510-516: delete price:current:{item_id}
\* and the history keys of the item.
PriceInvalidate(p) ==
    /\ ptask[p].pc = "invalidate"
    /\ price_cache' = [price_cache EXCEPT ![ptask[p].item_id] = Absent]
    /\ rollup_cache' = [k \in RollupKeys |->
                         IF k \in InvalidatedHistoryKeys(ptask[p].item_id) THEN Absent
                         ELSE rollup_cache[k]]
    /\ ptask' = [ptask EXCEPT ![p].pc = "send_update"]
    /\ UNCHANGED <<prices, price_history, prequests, price_bus_failed>>

PriceEventAction(t) ==
    IF t.op = "create_or_update" /\ t.existing = NoRow THEN "created" ELSE "updated"

\* _send_price_update lines 549-565, then the return of the service method.
PriceSendUpdate(p) ==
    /\ ptask[p].pc = "send_update"
    /\ \E bus_ok \in BOOLEAN :
          /\ price_bus_failed' = (price_bus_failed \/ ~bus_ok)
          /\ ptask' = [ptask EXCEPT ![p] =
                       IF bus_ok
                       THEN PriceFinish([ptask[p] EXCEPT
                                            !.events = Append(@, [type |-> "price_update",
                                                                  action |-> PriceEventAction(ptask[p])])],
                                        "ok", ptask[p].result)
                       ELSE PricePublishRaises(ptask[p])]
    /\ UNCHANGED <<prices, price_history, price_cache, prequests>>

InitPrice ==
    /\ prices = << >>
    /\ price_history = << >>
    /\ price_cache = [i \in PriceItemIds |-> Absent]
    /\ ptask = [p \in Tasks |-> IdlePriceTask]
    /\ prequests = 0
    /\ price_bus_failed = FALSE

NextPrice ==
    \E p \in Tasks :
        \/ \E item_id \in PriceItemIds : StartCurrentPrice(p, item_id) /\ UNCHANGED <<ivars, wvars, calc, bus, listener, rollup_cache, rtask>>
        \/ \E item_id \in PriceItemIds, selling_price \in PriceVals : StartCreateOrUpdatePrice(p, item_id, selling_price) /\ UNCHANGED <<ivars, wvars, calc, bus, listener, rollup_cache, rtask>>
        \/ \E item_id \in PriceItemIds, selling_price \in PriceVals : StartUpdatePrice(p, item_id, selling_price) /\ UNCHANGED <<ivars, wvars, calc, bus, listener, rollup_cache, rtask>>
        \/ PriceGetCache(p) /\ UNCHANGED <<ivars, wvars, calc, bus, listener, rollup_cache, rtask>>
        \/ PriceDbSelect(p) /\ UNCHANGED <<ivars, wvars, calc, bus, listener, rollup_cache, rtask>>
        \/ PriceSetCache(p) /\ UNCHANGED <<ivars, wvars, calc, bus, listener, rollup_cache, rtask>>
        \/ PriceCommitDeactivate(p) /\ UNCHANGED <<ivars, wvars, calc, bus, listener, rollup_cache, rtask>>
        \/ PriceSendAlert(p) /\ UNCHANGED <<ivars, wvars, calc, bus, listener, rollup_cache, rtask>>
        \/ PriceCommit(p) /\ UNCHANGED <<ivars, wvars, calc, bus, listener, rollup_cache, rtask>>
        \/ PriceDbUpdate(p) /\ UNCHANGED <<ivars, wvars, calc, bus, listener, rollup_cache, rtask>>
        \/ PriceInvalidate(p) /\ UNCHANGED <<ivars, wvars, calc, bus, listener, rtask>>
        \/ PriceSendUpdate(p) /\ UNCHANGED <<ivars, wvars, calc, bus, listener, rollup_cache, rtask>>

(***************************************************************************)
(* services/websocket_manager.py: the ConnectionManager of the process     *)
(* (main.py: manager = ConnectionManager()), the endpoint tasks that       *)
(* register and remove WebSockets, and the subscriber task that relays     *)
(* bus messages to them.                                                   *)
(***************************************************************************)
Conns == 1..NumConns

RangeOf(s) == {s[i] : i \in 1..Len(s)}

\* channels_to_subscribe, in the order _start_redis_subscriber lists them.
Channels ==
    <<"inventory:updates", "price:updates", "stock:alerts", "price:alerts",
      "system:notifications">>

\* The keys ConnectionManager.__init__ creates, in dict order.
InitialKeys == <<"inventory", "price", "alerts">>

Types == {"inventory", "price", "alerts", "general"}

\* The URLs of the WebSockets: the three typed paths and one other path.
Urls == {"/ws/inventory", "/ws/price", "/ws/alerts", "/ws/status"}

\* word in str(websocket.url)
Contains(url, word) ==
    CASE url = "/ws/inventory" -> word = "inventory"
      [] url = "/ws/price" -> word = "price"
      [] url = "/ws/alerts" -> word = "alert"
      [] OTHER -> FALSE

\* The arguments of connect: the endpoints pass no connection_type (the
\* default "general"); another caller may pass one.
ConnectInputs ==
    [url : Urls, connection_type : {"general"}]
        \cup {[url |-> "/ws/status", connection_type |-> "alerts"]}

\* Kinds of payload of a bus message: a JSON object, a string that is not
\* JSON, and JSON that is not an object (a list, a number, a string).
PayloadKinds == {"object", "not_json", "not_object"}

\* The messages the subscriber is given: a JSON object on every channel, and
\* each malformed kind on one channel (the payload is decoded before the
\* channel is looked at).
PollInputs ==
    [channel : RangeOf(Channels), kind : {"object"}]
        \cup {[channel |-> "inventory:updates", kind |-> "not_json"],
              [channel |-> "system:notifications", kind |-> "not_object"]}

\* list.remove(x): the first occurrence of x is taken out.
RemoveFirst(s, x) ==
    IF x \notin RangeOf(s) THEN s
    ELSE LET i == CHOOSE i \in 1..Len(s) : s[i] = x /\ \A j \in 1..(i - 1) : s[j] # x
         IN SubSeq(s, 1, i - 1) \o SubSeq(s, i + 1, Len(s))

\* A connect whose fallback ignores the connection_type parameter.
connection_type_ignores_parameter(url, connection_type) ==
    IF Contains(url, "inventory") THEN "inventory"
    ELSE IF Contains(url, "price") THEN "price"
    ELSE IF Contains(url, "alert") THEN "alerts"
    ELSE "general"

\* connect lines 129-134: the type is read from the URL; without a keyword
\* in the URL the connection_type parameter stays as the caller gave it.
connection_type_of(url, connection_type) ==
    IF Contains(url, "inventory") THEN "inventory"
    ELSE IF Contains(url, "price") THEN "price"
    ELSE IF Contains(url, "alert") THEN "alerts"
    ELSE connection_type

\* A connect that starts a subscriber whatever is_listening says.
StartsSubscriberAlways(listening) == TRUE

\* connect line 143.
StartsSubscriber(listening) == ~listening

\* A disconnect that leaves the connection in its registry.
disconnect_keeps_connection(regs, keys, websocket) == regs

\* disconnect lines 177-183: the connection is removed from the first
\* registry, in dict order, that holds it; nothing happens when none does.
disconnect(regs, keys, websocket) ==
    LET holders == {i \in 1..Len(keys) : websocket \in RangeOf(regs[keys[i]])}
    IN IF holders = {} THEN regs
       ELSE LET i == CHOOSE i \in holders : \A j \in holders : i <= j
            IN [regs EXCEPT ![keys[i]] = RemoveFirst(@, websocket)]

\* broadcast_to_type lines 242-243.
RECURSIVE DisconnectAll(_, _, _)
DisconnectAll(regs, keys, disconnected) ==
    IF disconnected = << >> THEN regs
    ELSE DisconnectAll(disconnect(regs, keys, Head(disconnected)), keys, Tail(disconnected))

IdleConn ==
    [pc |-> "new", url |-> "", connection_type |-> "", group |-> "",
     broken |-> FALSE, received |-> << >>]

NoSubscriber ==
    [pc |-> "none", subscribed |-> << >>, msg |-> 0, type |-> "",
     targets |-> << >>, dict_size |-> 0, snapshot |-> << >>, attempted |-> << >>,
     disconnected |-> << >>, present |-> {}, log |-> << >>]

\* The connections some registry holds.
Registered == UNION {RangeOf(active_connections[t]) : t \in Types}

(***************************************************************************)
(* connect (lines 92-149).  The endpoint task calls connect and is         *)
(* suspended in websocket.accept(); WebSockets are numbered in the order   *)
(* of their connect calls.                                                 *)
(***************************************************************************)
ConnectCall(c, input) ==
    /\ conn[c].pc = "new"
    /\ \A b \in Conns : b < c => conn[b].pc # "new"
    /\ conn' = [conn EXCEPT ![c].pc = "accepting", ![c].url = input.url,
                            ![c].connection_type = input.connection_type]
    /\ UNCHANGED <<registry_keys, active_connections, is_listening, subscriber_tasks,
                   sub, messages>>

\* lines 128-145, run without suspension once accept has returned.
Accepted(c) ==
    /\ conn[c].pc = "accepting"
    /\ LET connection_type == connection_type_of(conn[c].url, conn[c].connection_type)
       IN /\ registry_keys' = IF connection_type \in RangeOf(registry_keys)
                              THEN registry_keys
                              ELSE Append(registry_keys, connection_type)
          /\ active_connections' = [active_connections EXCEPT ![connection_type] = Append(@, c)]
          /\ conn' = [conn EXCEPT ![c].pc = "open", ![c].group = connection_type]
    /\ IF StartsSubscriber(is_listening)
       THEN /\ sub' = [NoSubscriber EXCEPT !.pc = "subscribe"]
            /\ subscriber_tasks' = subscriber_tasks + 1
       ELSE UNCHANGED <<sub, subscriber_tasks>>
    /\ is_listening' = TRUE
    /\ UNCHANGED messages

\* The peer of an open WebSocket goes away: from now on a send to it raises.
PeerCloses(c) ==
    /\ conn[c].pc = "open"
    /\ ~conn[c].broken
    /\ Cardinality({b \in Conns : conn[b].broken}) < MaxPeerCloses
    /\ conn' = [conn EXCEPT ![c].broken = TRUE]
    /\ UNCHANGED <<registry_keys, active_connections, is_listening, subscriber_tasks,
                   sub, messages>>

\* main.py lines 92-94 / 109-111: receive_text raises WebSocketDisconnect and
\* the endpoint calls manager.disconnect(websocket).
Disconnect(c) ==
    /\ conn[c].pc = "open"
    /\ conn[c].broken
    /\ active_connections' = disconnect(active_connections, registry_keys, c)
    /\ conn' = [conn EXCEPT ![c].pc = "closed"]
    /\ UNCHANGED <<registry_keys, is_listening, subscriber_tasks, sub, messages>>

(***************************************************************************)
(* _start_redis_subscriber (lines 255-299).                                *)
(***************************************************************************)
\* An exit of the subscriber that clears the flag.
ListeningAfterExitCleared(listening) == FALSE

\* lines 294-299: the except and the finally of the subscriber log the error
\* and close the pubsubs; is_listening is not assigned.
ListeningAfterExit(listening) == listening

\* lines 269-271: one await per channel; a failing subscribe ends the task
\* through the outer except and the finally, which closes the pubsubs.
Subscribe ==
    /\ sub.pc = "subscribe"
    /\ \E bus_ok \in BOOLEAN :
          /\ sub' = IF ~bus_ok
                    THEN [sub EXCEPT !.pc = "closed", !.subscribed = << >>]
                    ELSE LET subscribed == Append(sub.subscribed, Channels[Len(sub.subscribed) + 1])
                         IN [sub EXCEPT !.subscribed = subscribed,
                                        !.pc = IF Len(subscribed) = Len(Channels)
                                               THEN "poll" ELSE "subscribe"]
          /\ is_listening' = IF ~bus_ok THEN ListeningAfterExit(is_listening)
                             ELSE is_listening
    /\ UNCHANGED <<registry_keys, active_connections, conn, subscriber_tasks, messages>>

\* get_connection_stats lines 538-545.  subscriber_task and not
\* subscriber_task.done() is None as long as no task was created.
get_connection_stats ==
    [total_connections |-> Cardinality(Registered),
     connections_by_type |-> [t \in RangeOf(registry_keys) |-> Len(active_connections[t])],
     is_redis_listening |-> is_listening,
     subscriber_task_running |-> IF sub.pc = "none" THEN "None"
                                 ELSE IF sub.pc # "closed" THEN "True" ELSE "False"]

\* _handle_redis_message lines 309-316 and broadcast_to_all line 252: the
\* types a message of the channel is broadcast to.
Route(channel, keys) ==
    CASE channel = "inventory:updates" -> <<"inventory">>
      [] channel = "price:updates" -> <<"price">>
      [] channel \in {"stock:alerts", "price:alerts"} -> <<"alerts">>
      [] channel = "system:notifications" -> keys

\* A handler that assigns into whatever json.loads returned without failing.
HandlePayloadAnyJson(kind) == IF kind = "not_json" THEN "drop" ELSE "route"

\* _handle_redis_message lines 303-306 and 318-323: json.loads raises
\* JSONDecodeError on a string that is not JSON, and message["timestamp"] = ...
\* raises TypeError on JSON that is not an object; both are caught and logged.
HandlePayload(kind) == IF kind = "object" THEN "route" ELSE "drop"

\* The handler returns to the loop of lines 277-292, which goes on polling.
EndHandling(s, result) ==
    [s EXCEPT !.pc = "poll",
              !.log = Append(@, [id |-> s.msg, result |-> result]),
              !.msg = 0, !.type = "", !.targets = << >>, !.dict_size = 0,
              !.snapshot = << >>, !.attempted = << >>, !.disconnected = << >>,
              !.present = {}]

(***************************************************************************)
(* The handler from one broadcast_to_type to the next await.               *)
(* broadcast_to_all iterates the dict active_connections itself: when a    *)
(* key was added while a send was awaited, the next step of the iteration  *)
(* raises RuntimeError (dictionary changed size during iteration), which   *)
(* the except of line 321 logs.  A type with no connection is broadcast    *)
(* to without any await.                                                   *)
(***************************************************************************)
RECURSIVE NextBroadcast(_, _, _)
NextBroadcast(s, regs, keys) ==
    IF s.dict_size # 0 /\ Len(keys) # s.dict_size
    THEN EndHandling(s, "runtime_error")
    ELSE IF s.targets = << >>
    THEN EndHandling(s, "relayed")
    ELSE LET connection_type == Head(s.targets)
         IN IF regs[connection_type] = << >>
            THEN NextBroadcast([s EXCEPT !.targets = Tail(@)], regs, keys)
            ELSE [s EXCEPT !.pc = "send", !.type = connection_type,
                           !.targets = Tail(@),
                           !.snapshot = regs[connection_type],
                           !.attempted = << >>, !.disconnected = << >>]

\* lines 278-292: the get_message that returns the next message of the bus,
\* on whichever channel it was published (the polls that return nothing
\* change no state), and the handling of the message up to the first send.
Poll(channel, kind) ==
    /\ sub.pc = "poll"
    /\ Len(messages) < MaxMessages
    /\ messages' = Append(messages, [channel |-> channel, kind |-> kind])
    /\ LET s == [sub EXCEPT !.msg = Len(messages) + 1, !.present = Registered]
       IN sub' = IF HandlePayload(kind) = "drop"
                 THEN EndHandling(s, "dropped")
                 ELSE NextBroadcast(
                         [s EXCEPT !.targets = Route(channel, registry_keys),
                                   !.dict_size = IF channel = "system:notifications"
                                                 THEN Len(registry_keys) ELSE 0],
                         active_connections, registry_keys)
    /\ UNCHANGED <<registry_keys, active_connections, conn, is_listening, subscriber_tasks>>

\* send_text raises on a WebSocket whose peer is gone or that was closed.
SendRaises(c) == conn[c].broken \/ conn[c].pc # "open"

\* A loop over the list of the registry itself: what is left of it after a
\* send are the connections the registry still holds.
RestOfLiveList(snapshot, connections) ==
    LET StillRegistered(c) == c \in RangeOf(connections)
    IN SelectSeq(Tail(snapshot), StillRegistered)

\* for connection in connections_copy (lines 231, 234): the loop runs over
\* the copy taken before the first send, whatever the registry holds now.
RestOfCopy(snapshot, connections) == Tail(snapshot)

(***************************************************************************)
(* broadcast_to_type lines 234-248: one send_text to the next connection   *)
(* of the snapshot; after the last one the failed connections are          *)
(* disconnected and the handler goes on.                                   *)
(***************************************************************************)
Send ==
    /\ sub.pc = "send"
    /\ LET connection == Head(sub.snapshot)
           rest == RestOfCopy(sub.snapshot, active_connections[sub.type])
           disconnected == IF SendRaises(connection)
                           THEN Append(sub.disconnected, connection)
                           ELSE sub.disconnected
           s == [sub EXCEPT !.snapshot = rest, !.disconnected = disconnected,
                            !.attempted = Append(@, connection)]
       IN /\ conn' = IF SendRaises(connection) THEN conn
                     ELSE [conn EXCEPT ![connection].received = Append(@, sub.msg)]
          /\ IF rest # << >>
             THEN /\ sub' = s
                  /\ UNCHANGED active_connections
             ELSE LET regs == DisconnectAll(active_connections, registry_keys, disconnected)
                  IN /\ active_connections' = regs
                     /\ sub' = NextBroadcast(s, regs, registry_keys)
    /\ UNCHANGED <<registry_keys, is_listening, subscriber_tasks, messages>>

\* The listening loop as it starts: every channel subscribed, no message yet.
NewListener ==
    [pc |-> "get", index |-> 1, pubsub |-> [i \in 1..Len(Channels) |-> << >>],
     message |-> 0, published |-> << >>, handled |-> {}, errors |-> 0]

InitWS ==
    /\ registry_keys = InitialKeys
    /\ active_connections = [t \in Types |-> << >>]
    /\ conn = [c \in Conns |-> IdleConn]
    /\ is_listening = FALSE
    /\ subscriber_tasks = 0
    /\ sub = NoSubscriber
    /\ messages = << >>
    /\ bus = << >>
    /\ listener = NewListener

NextWS ==
    \/ \E c \in Conns, input \in ConnectInputs : ConnectCall(c, input) /\ UNCHANGED <<ivars, pvars, calc, bus, listener, rollup_cache, rtask>>
    \/ \E c \in Conns : Accepted(c) /\ UNCHANGED <<ivars, pvars, calc, bus, listener, rollup_cache, rtask>>
    \/ \E c \in Conns : PeerCloses(c) /\ UNCHANGED <<ivars, pvars, calc, bus, listener, rollup_cache, rtask>>
    \/ \E c \in Conns : Disconnect(c) /\ UNCHANGED <<ivars, pvars, calc, bus, listener, rollup_cache, rtask>>
    \/ Subscribe /\ UNCHANGED <<ivars, pvars, calc, bus, listener, rollup_cache, rtask>>
    \/ \E input \in PollInputs :
          Poll(input.channel, input.kind) /\ UNCHANGED <<ivars, pvars, calc, bus, listener, rollup_cache, rtask>>
    \/ Send /\ UNCHANGED <<ivars, pvars, calc, bus, listener, rollup_cache, rtask>>

(***************************************************************************)
(* The events of the services in the process of main.py: the WebSockets    *)
(* are registered in the ConnectionManager of main.py line 20, whose       *)
(* subscriber relays what is published on the bus; a service emits an      *)
(* event through a ConnectionManager it constructs for that one call       *)
(* (inventory_service.py lines 604 and 650, price_service.py lines 551 and *)
(* 605).                                                                   *)
(***************************************************************************)
\* ConnectionManager.__init__ lines 77-90: the registries of a manager that
\* has just been constructed.
NewManagerConnections == [t \in Types |-> << >>]

\* The channels of send_inventory_update, send_price_update,
\* send_stock_alert and send_price_alert, each with the type it is
\* broadcast to directly (lines 362-365, 404-407, 453-456, 502-505).
EventChannels == {"inventory:updates", "price:updates", "stock:alerts", "price:alerts"}

DirectType(channel) ==
    CASE channel = "inventory:updates" -> "inventory"
      [] channel = "price:updates" -> "price"
      [] channel \in {"stock:alerts", "price:alerts"} -> "alerts"

(***************************************************************************)
(* _send_inventory_update and its three siblings: manager =                *)
(* ConnectionManager(); await manager.send_...(): the message is published *)
(* and then broadcast to the connections of that manager.  held records    *)
(* the connections the manager of main.py holds in the type at that time.  *)
(* The broadcast of a manager without connections awaits no send.          *)
(***************************************************************************)
EmitEvent(channel) ==
    /\ Len(bus) < MaxMessages
    /\ LET manager_connections == NewManagerConnections
           connection_type == DirectType(channel)
           direct == RangeOf(manager_connections[connection_type])
       IN /\ bus' = Append(bus, [channel |-> channel,
                                 held |-> RangeOf(active_connections[connection_type]),
                                 direct |-> direct])
          /\ conn' = [c \in Conns |->
                        IF c \in direct /\ ~SendRaises(c)
                        THEN [conn[c] EXCEPT !.received = Append(@, Len(bus) + 1)]
                        ELSE conn[c]]
    /\ UNCHANGED <<registry_keys, active_connections, is_listening, subscriber_tasks,
                   sub, messages>>

\* The subscriber of the manager of main.py is given the next published
\* event, in order of publication.
PollPublished ==
    /\ Len(messages) < Len(bus)
    /\ Poll(bus[Len(messages) + 1].channel, "object")
    /\ UNCHANGED bus

NextEvent ==
    \/ \E c \in Conns, input \in ConnectInputs : ConnectCall(c, input) /\ UNCHANGED <<ivars, pvars, calc, bus, listener, rollup_cache, rtask>>
    \/ \E c \in Conns : Accepted(c) /\ UNCHANGED <<ivars, pvars, calc, bus, listener, rollup_cache, rtask>>
    \/ Subscribe /\ UNCHANGED <<ivars, pvars, calc, bus, listener, rollup_cache, rtask>>
    \/ \E channel \in EventChannels : EmitEvent(channel) /\ UNCHANGED <<ivars, pvars, calc, listener, rollup_cache, rtask>>
    \/ PollPublished /\ UNCHANGED <<ivars, pvars, calc, listener, rollup_cache, rtask>>
    \/ Send /\ UNCHANGED <<ivars, pvars, calc, bus, listener, rollup_cache, rtask>>

(***************************************************************************)
(* _start_redis_subscriber, the listening loop on its own: subscribers is  *)
(* the list of (channel, pubsub) in the order of Channels; the loop asks   *)
(* each pubsub in turn for a message, waiting at most one second.          *)
(* listener.pubsub[i] holds the ids of the messages published on channel i *)
(* that the loop has not read yet.                                         *)
(***************************************************************************)
\* A wait that never ends on a channel without messages.
next_subscriber_without_timeout(index) == index

\* for channel, pubsub in subscribers, inside while self.is_listening: the
\* subscriber asked after this one.
next_subscriber(index) == (index % Len(Channels)) + 1

\* redis_manager.publish_message(channel, ...) by any process: the message
\* reaches the pubsub subscribed to the channel.
PublishTo(i) ==
    /\ Len(listener.published) < MaxPublished
    /\ LET id == Len(listener.published) + 1
       IN listener' = [listener EXCEPT !.published = Append(@, i),
                                       !.pubsub[i] = Append(@, id)]

\* get_message returns the oldest message of the channel.
GetMessageReturns ==
    /\ listener.pc = "get"
    /\ listener.pubsub[listener.index] # << >>
    /\ listener' = [listener EXCEPT !.pc = "handle",
                                    !.message = Head(listener.pubsub[listener.index]),
                                    !.pubsub[listener.index] = Tail(@)]

\* The channel is idle: get_message returns None or wait_for raises
\* TimeoutError after one second; continue.
GetMessageTimesOut ==
    /\ listener.pc = "get"
    /\ listener.pubsub[listener.index] = << >>
    /\ listener' = [listener EXCEPT !.index = next_subscriber(listener.index)]

\* get_message raises: except Exception logs the error and the for loop goes
\* on with the next subscriber; nothing has been read.
GetMessageRaises ==
    /\ listener.pc = "get"
    /\ listener.errors < MaxPollErrors
    /\ listener' = [listener EXCEPT !.errors = @ + 1,
                                    !.index = next_subscriber(listener.index)]

\* await self._handle_redis_message(channel, message["data"]) returns (it
\* lets no Exception out).
HandleMessage ==
    /\ listener.pc = "handle"
    /\ listener' = [listener EXCEPT !.pc = "get",
                                    !.handled = @ \cup {listener.message},
                                    !.message = 0,
                                    !.index = next_subscriber(listener.index)]

\* The steps of the subscriber task.
ListenerStep ==
    GetMessageReturns \/ GetMessageTimesOut \/ GetMessageRaises \/ HandleMessage

NextListen ==
    \/ \E i \in 1..Len(Channels) : PublishTo(i) /\ UNCHANGED <<ivars, pvars, wvars, calc, bus, rollup_cache, rtask>>
    \/ GetMessageReturns /\ UNCHANGED <<ivars, pvars, wvars, calc, bus, rollup_cache, rtask>>
    \/ GetMessageTimesOut /\ UNCHANGED <<ivars, pvars, wvars, calc, bus, rollup_cache, rtask>>
    \/ GetMessageRaises /\ UNCHANGED <<ivars, pvars, wvars, calc, bus, rollup_cache, rtask>>
    \/ HandleMessage /\ UNCHANGED <<ivars, pvars, wvars, calc, bus, rollup_cache, rtask>>

(***************************************************************************)
(* The specifications: the stores as the service finds them, and the       *)
(* requests of one service running concurrently.                           *)
(***************************************************************************)
\* No derived property is being evaluated on its own.
NoCalc == [pc |-> "none"]

Init == InitInv /\ InitPrice /\ InitWS /\ calc = NoCalc

SpecInv == Init /\ [][NextInv]_vars

SpecPrice == Init /\ [][NextPrice]_vars

SpecWS == Init /\ [][NextWS]_vars

SpecEvent == Init /\ [][NextEvent]_vars

\* The listening loop under a fair scheduler: the event loop runs the
\* subscriber task again and again.
SpecListen == Init /\ [][NextListen]_vars /\ WF_vars(ListenerStep /\ UNCHANGED <<ivars, pvars, wvars, calc, bus, rollup_cache, rtask>>)

\* The inventory service with a Redis that fails MaxCacheFaults times; every
\* fault to come takes the place of one request in the bound MaxRequests.
InitFault ==
    /\ InitInvStore
    /\ irequests = MaxCacheFaults
    /\ cache_faults = MaxCacheFaults
    /\ InitPrice
    /\ InitWS
    /\ calc = NoCalc

NextFault ==
    \/ NextInv
    \/ \E id \in ItemIds : CorruptEntry(id) /\ UNCHANGED <<pvars, wvars, calc, bus, listener, rollup_cache, rtask>>

SpecFault == InitFault /\ [][NextFault]_vars

(***************************************************************************)
(* models/inventory.py: is_low_stock and stock_status evaluated on every   *)
(* item with an available quantity in -MaxQuantity..MaxQuantity and a      *)
(* minimum stock level in 0..MaxQuantity.                                  *)
(***************************************************************************)
InitStatus ==
    /\ InitInv /\ InitPrice /\ InitWS
    /\ calc \in [pc : {"input"},
                 item : [available_quantity : (0 - MaxQuantity)..MaxQuantity,
                         min_stock_level : 0..MaxQuantity],
                 is_low_stock : {FALSE},
                 stock_status : {""}]

EvalStatus ==
    /\ calc.pc = "input"
    /\ calc' = [calc EXCEPT !.pc = "done",
                            !.is_low_stock = is_low_stock(calc.item),
                            !.stock_status = stock_status(calc.item)]
    /\ UNCHANGED <<ivars, pvars, wvars, bus, listener, rollup_cache, rtask>>

NextStatus == EvalStatus

SpecStatus == InitStatus /\ [][NextStatus]_vars

(***************************************************************************)
(* services/price_service.py _record_price_history on its own: the row it  *)
(* builds for every old price in -MaxPrice..MaxPrice and every new price   *)
(* in 0..MaxPrice.                                                         *)
(***************************************************************************)
InitRecord ==
    /\ InitInv /\ InitPrice /\ InitWS
    /\ calc \in [pc : {"input"}, old_price : (0 - MaxPrice)..MaxPrice,
                 new_price : 0..MaxPrice, row : {NoHistory}]

EvalRecord ==
    /\ calc.pc = "input"
    /\ calc' = [calc EXCEPT !.pc = "done",
                            !.row = record_price_history(1, calc.old_price, calc.new_price)]
    /\ UNCHANGED <<ivars, pvars, wvars, bus, listener, rollup_cache, rtask>>

NextRecord == EvalRecord

SpecRecord == InitRecord /\ [][NextRecord]_vars

(***************************************************************************)
(* models/price.py PriceHistory.change_significance, evaluated on rows     *)
(* whose price_change_percent is NULL (the column is nullable) or any      *)
(* number of tenths in -MaxPercentTenths..MaxPercentTenths.                *)
(***************************************************************************)
\* A price_change_percent column that holds NULL.
NullPercent == [null |-> TRUE]

\* self.price_change_percent or 0
PercentOrZero(percent) ==
    IF percent = NullPercent THEN [num |-> 0, den |-> 1] ELSE percent

\* A significance read from the signed percentage.
change_significance_signed(row) ==
    LET change == PercentOrZero(row.price_change_percent)
    IN IF change.num >= 20 * change.den THEN "major"
       ELSE IF change.num >= 10 * change.den THEN "significant"
       ELSE IF change.num >= 5 * change.den THEN "moderate"
       ELSE "minor"

change_significance(row) ==
    LET change == PercentOrZero(row.price_change_percent)
        abs_change == [num |-> IF change.num >= 0 THEN change.num ELSE 0 - change.num,
                       den |-> change.den]
    IN IF abs_change.num >= 20 * abs_change.den THEN "major"
       ELSE IF abs_change.num >= 10 * abs_change.den THEN "significant"
       ELSE IF abs_change.num >= 5 * abs_change.den THEN "moderate"
       ELSE "minor"

InitSignificance ==
    /\ InitInv /\ InitPrice /\ InitWS
    /\ calc \in [pc : {"input"},
                 row : [price_change_percent :
                           {NullPercent} \cup [num : (0 - MaxPercentTenths)..MaxPercentTenths,
                                          den : {10}]],
                 change_significance : {""}]

EvalSignificance ==
    /\ calc.pc = "input"
    /\ calc' = [calc EXCEPT !.pc = "done",
                            !.change_significance = change_significance(calc.row)]
    /\ UNCHANGED <<ivars, pvars, wvars, bus, listener, rollup_cache, rtask>>

NextSignificance == EvalSignificance

SpecSignificance == InitSignificance /\ [][NextSignificance]_vars

(***************************************************************************)
(* services/price_service.py get_current_price on a cache miss, on its     *)
(* own: the query evaluated at time MaxTime - 1 on every price table of up *)
(* to MaxTableRows rows of items 1 and 2, active or not, with              *)
(* effective_from in 1..MaxTime.  Two active rows of one item are what two *)
(* concurrent create_or_update_price calls leave; their effective_from,    *)
(* the now() of two transactions, can be the same clock reading.           *)
(***************************************************************************)
PriceTables ==
    UNION { [1..n -> [inventory_id : {1, 2}, is_active : BOOLEAN, at : 1..MaxTime]] :
              n \in 0..MaxTableRows }

TableRows(table) ==
    [i \in 1..Len(table) |->
        [PriceRow(i, table[i].inventory_id, 100) EXCEPT
            !.is_active = table[i].is_active,
            !.effective_from = [type |-> "datetime", at |-> table[i].at]]]

InitCurrent ==
    /\ InitInv /\ InitPrice /\ InitWS
    /\ \E table \in PriceTables :
          calc = [pc |-> "input", rows |-> TableRows(table), item_id |-> 1,
                  utcnow |-> MaxTime - 1, price |-> NoRow]

EvalCurrent ==
    /\ calc.pc = "input"
    /\ \E price \in QueryCurrentPrice(calc.rows, calc.item_id, calc.utcnow) :
          calc' = [calc EXCEPT !.pc = "done", !.price = price]
    /\ UNCHANGED <<ivars, pvars, wvars, bus, listener, rollup_cache, rtask>>

NextCurrent == EvalCurrent

SpecCurrent == InitCurrent /\ [][NextCurrent]_vars

(***************************************************************************)
(* services/price_service.py get_significant_price_changes on its own: the *)
(* query evaluated on every price_history table of up to MaxTableRows rows *)
(* that _record_price_history builds from an old price of 100, changed_at  *)
(* in 1..MaxTime, for thresholds of -5, 5 and 10 percent and every start   *)
(* date in 1..MaxTime.                                                     *)
(***************************************************************************)
HistoryNewPrices == {80, 95, 105, 110}
ThresholdPercents == {0 - 5, 5, 10}

HistoryTables ==
    UNION { [1..n -> [new_price : HistoryNewPrices, changed_at : 1..MaxTime]] :
              n \in 0..MaxTableRows }

\* models/price.py PriceHistory: the recorded row with its id and changed_at.
HistoryRows(table) ==
    [i \in 1..Len(table) |->
        record_price_history(1, 100, table[i].new_price)
            @@ [id |-> i, changed_at |-> table[i].changed_at]]

\* A filter on the size of the change, whatever its direction.
IsSignificantChangeEitherWay(row, threshold_percent, start_date) ==
    /\ row.changed_at >= start_date
    /\ \/ row.price_change_percent.num >= threshold_percent * row.price_change_percent.den
       \/ 0 - row.price_change_percent.num >= threshold_percent * row.price_change_percent.den

\* get_significant_price_changes lines 421-426: the where clause.
IsSignificantChange(row, threshold_percent, start_date) ==
    /\ row.changed_at >= start_date
    /\ row.price_change_percent.num >= threshold_percent * row.price_change_percent.den

\* p >= q for two percentages.
PercentGE(p, q) == p.num * q.den >= q.num * p.den

\* lines 419-430: the rows that pass the filter, each once, ordered by
\* price_change_percent descending; rows of equal percentage in any order.
SignificantPriceChanges(rows, threshold_percent, start_date) ==
    LET matching == { i \in 1..Len(rows) :
                        IsSignificantChange(rows[i], threshold_percent, start_date) }
    IN { changes \in [1..Cardinality(matching) -> matching] :
           /\ \A a, b \in 1..Cardinality(matching) : a # b => changes[a] # changes[b]
           /\ \A a, b \in 1..Cardinality(matching) :
                 a < b => PercentGE(rows[changes[a]].price_change_percent,
                                    rows[changes[b]].price_change_percent) }

InitChanges ==
    /\ InitInv /\ InitPrice /\ InitWS
    /\ \E table \in HistoryTables, threshold_percent \in ThresholdPercents,
          start_date \in 1..MaxTime :
          calc = [pc |-> "input", rows |-> HistoryRows(table),
                  threshold_percent |-> threshold_percent, start_date |-> start_date,
                  changes |-> << >>]

\* changes holds the ids of the rows returned, in the order returned.
EvalChanges ==
    /\ calc.pc = "input"
    /\ \E changes \in SignificantPriceChanges(calc.rows, calc.threshold_percent,
                                               calc.start_date) :
          calc' = [calc EXCEPT !.pc = "done", !.changes = changes]
    /\ UNCHANGED <<ivars, pvars, wvars, bus, listener, rollup_cache, rtask>>

NextChanges == EvalChanges

SpecChanges == InitChanges /\ [][NextChanges]_vars

(***************************************************************************)
(* services/inventory_service.py get_low_stock_items on a cache miss, on   *)
(* its own: the query and the conversion to alerts, evaluated on every     *)
(* inventory table of up to MaxTableRows rows, active or not, for the      *)
(* thresholds 5, 10 and 20.                                                *)
(***************************************************************************)
AlertAvailableVals == {0 - 1, 0, 3, 10, 15}
AlertMinLevels == {0, 10}
AlertThresholds == {5, 10, 20}

InventoryTables ==
    UNION { [1..n -> [available_quantity : AlertAvailableVals,
                      min_stock_level : AlertMinLevels,
                      is_active : BOOLEAN]] : n \in 0..MaxTableRows }

\* An alert level that is critical at half the minimum level or less.
low_stock_alert_level_by_half(item) ==
    IF item.available_quantity <= 0 THEN "out_of_stock"
    ELSE IF 2 * item.available_quantity <= item.min_stock_level THEN "critical"
    ELSE "low"

\* get_low_stock_items line 428.
low_stock_alert_level(item) ==
    IF item.available_quantity <= 0 THEN "out_of_stock"
    ELSE IF item.available_quantity <= item.min_stock_level THEN "low"
    ELSE "critical"

\* lines 430-438: InventoryStockAlert of the row with id i.
StockAlert(i, item) ==
    [id |-> i,
     current_stock |-> item.available_quantity,
     min_stock_level |-> item.min_stock_level,
     shortage_amount |-> IF item.min_stock_level - item.available_quantity >= 0
                         THEN item.min_stock_level - item.available_quantity ELSE 0,
     alert_level |-> low_stock_alert_level(item)]

\* lines 416-438: the active rows with available_quantity <= threshold, each
\* once, ordered by available_quantity ascending (rows of equal quantity in
\* any order), each converted to its alert.
LowStockAlerts(rows, threshold) ==
    LET matching == { i \in 1..Len(rows) :
                        rows[i].available_quantity <= threshold /\ rows[i].is_active }
        orders == { items \in [1..Cardinality(matching) -> matching] :
                      /\ \A a, b \in 1..Cardinality(matching) :
                            a # b => items[a] # items[b]
                      /\ \A a, b \in 1..Cardinality(matching) :
                            a < b => rows[items[a]].available_quantity
                                        <= rows[items[b]].available_quantity }
    IN { [a \in 1..Cardinality(matching) |-> StockAlert(items[a], rows[items[a]])] :
           items \in orders }

InitLowStock ==
    /\ InitInv /\ InitPrice /\ InitWS
    /\ \E table \in InventoryTables, threshold \in AlertThresholds :
          calc = [pc |-> "input", rows |-> table, threshold |-> threshold, alerts |-> << >>]

EvalLowStock ==
    /\ calc.pc = "input"
    /\ \E alerts \in LowStockAlerts(calc.rows, calc.threshold) :
          calc' = [calc EXCEPT !.pc = "done", !.alerts = alerts]
    /\ UNCHANGED <<ivars, pvars, wvars, bus, listener, rollup_cache, rtask>>

NextLowStock == EvalLowStock

SpecLowStock == InitLowStock /\ [][NextLowStock]_vars

(***************************************************************************)
(* services/inventory_service.py get_all_inventory (lines 96-116) and      *)
(* get_low_stock_items (lines 408-444) as cache-aside reads, one action    *)
(* per await.  The table holds the rows the requests of the model touch    *)
(* and, older than all of them, OlderRows rows that no request touches and *)
(* whose stock is above every threshold; a list value keeps the rows of    *)
(* the first kind in items and the ranks of the rows of the second kind,   *)
(* counted from the newest of them, in older.                              *)
(***************************************************************************)
Smaller(a, b) == IF a <= b THEN a ELSE b
Larger(a, b) == IF a >= b THEN a ELSE b

\* order_by(Inventory.created_at.desc()) on the rows the requests touch.
NewestFirst(table) ==
    LET present == {i \in ItemIds : table[i] # NoRow}
    IN [k \in 1..Cardinality(present) |->
          CHOOSE i \in present :
              Cardinality({j \in present :
                              table[j].created_at.at > table[i].created_at.at}) = k - 1]

\* lines 108-110: select(Inventory).offset(skip).limit(limit).order_by(created_at desc).
InventoryPage(table, skip, limit) ==
    LET ids == NewestFirst(table)
        n == Len(ids)
    IN [kind |-> "rows",
        items |-> [k \in 1..(Smaller(skip + limit, n) - Smaller(skip, n)) |->
                      table[ids[skip + k]]],
        older |-> (Larger(skip, n) - n + 1)..(Smaller(skip + limit, n + OlderRows) - n)]

\* lines 416-438 on the table of the model, whose rows are all active.
LowStockRollup(table, threshold) ==
    LET matching == { i \in ItemIds :
                        table[i] # NoRow /\ table[i].available_quantity <= threshold }
        orders == { items \in [1..Cardinality(matching) -> matching] :
                      /\ \A a, b \in 1..Cardinality(matching) :
                            a # b => items[a] # items[b]
                      /\ \A a, b \in 1..Cardinality(matching) :
                            a < b => table[items[a]].available_quantity
                                        <= table[items[b]].available_quantity }
    IN { [kind |-> "alerts",
          items |-> [a \in 1..Cardinality(matching) |-> StockAlert(items[a], table[items[a]])],
          older |-> {}] : items \in orders }

\* price_service.py lines 362-374: the PriceHistory rows of the item with
\* changed_at >= start_date, newest first.  changed_at is the time of the
\* insert, and every row of the table is younger than the shortest window.
PriceHistoryRows(history, item_id) ==
    LET matching == SelectSeq(history, LAMBDA h : h.inventory_id = item_id)
    IN [kind |-> "rows",
        items |-> [k \in 1..Len(matching) |-> matching[Len(matching) + 1 - k]],
        older |-> {}]

\* set_cache + get_cache of h.__dict__: a plain dict.
HistoryJsonRoundTrip(h) ==
    [kind |-> "dict", inventory_id |-> h.inventory_id,
     old_price |-> h.old_price, new_price |-> h.new_price,
     price_change_percent |-> h.price_change_percent,
     price_change_amount |-> h.price_change_amount,
     sa_instance_state |-> "str"]

\* set_cache then get_cache of [item.__dict__ for item in items], of
\* [alert.model_dump() for alert in alerts] or of [h.__dict__ for h in
\* history]: a list of plain dicts.
CachedList(value) ==
    [kind |-> "dicts",
     items |-> [k \in 1..Len(value.items) |->
                  IF value.kind = "alerts" THEN value.items[k]
                  ELSE IF value.items[k].kind = "history"
                  THEN HistoryJsonRoundTrip(value.items[k])
                  ELSE JsonRoundTrip(value.items[k])],
     older |-> value.older]

\* len() of a list value.
ListLen(value) == Len(value.items) + Cardinality(value.older)

\* if cached_result: (lines 99 and 411) is true of a list that is not empty.
Truthy(cached_result) == cached_result # Absent /\ ListLen(cached_result) > 0

StartRead(key) ==
    /\ rtask.pc \in {"idle", "done"}
    /\ rtask.reads < MaxReads
    /\ rtask' = [pc |-> "get_cache", key |-> key, result |-> Absent, from_cache |-> FALSE,
                 reads |-> rtask.reads + 1]
    /\ UNCHANGED rollup_cache

\* lines 96-103 / 408-413 (price_service.py 358-363): await get_cache; a
\* true cached_result is returned.
ReadGetCache ==
    /\ rtask.pc = "get_cache"
    /\ LET cached_result == get_cache(rollup_cache[rtask.key], TRUE)
       IN rtask' = IF Truthy(cached_result)
                   THEN [rtask EXCEPT !.pc = "done", !.result = cached_result,
                                      !.from_cache = TRUE]
                   ELSE [rtask EXCEPT !.pc = "query"]
    /\ UNCHANGED rollup_cache

\* lines 108-110 / 416-438 (price_service.py 365-376): await db.execute.
ReadQuery ==
    /\ rtask.pc = "query"
    /\ \E value \in IF rtask.key.kind = "inventory_list"
                    THEN {InventoryPage(inventory, rtask.key.skip, rtask.key.limit)}
                    ELSE IF rtask.key.kind = "price_history"
                    THEN {PriceHistoryRows(price_history, rtask.key.item_id)}
                    ELSE LowStockRollup(inventory, rtask.key.threshold) :
          rtask' = [rtask EXCEPT !.pc = "set_cache", !.result = value]
    /\ UNCHANGED rollup_cache

\* lines 113-116 / 441-444 (price_service.py 379-384): await set_cache, then
\* return what the query gave.
ReadSetCache ==
    /\ rtask.pc = "set_cache"
    /\ rollup_cache' = [rollup_cache EXCEPT ![rtask.key] = CachedList(rtask.result)]
    /\ rtask' = [rtask EXCEPT !.pc = "done"]

\* The TTL of an entry (300 s for a page, 120 s for a rollup, 3600 s for a
\* price history) runs out.
Expire(key) ==
    /\ rollup_cache[key] # Absent
    /\ rollup_cache' = [rollup_cache EXCEPT ![key] = Absent]
    /\ UNCHANGED rtask

InventoryKeys == {k \in RollupKeys : k.kind \in {"inventory_list", "low_stock_items"}}

\* The inventory service with one more request to come and the readers of
\* its list pages and low-stock rollups.
InitKeys ==
    /\ InitInvStore
    /\ irequests = MaxRequests - 1
    /\ cache_faults = 0
    /\ InitPrice
    /\ InitWS
    /\ calc = NoCalc

NextKeys ==
    \/ NextInv
    \/ \E key \in InventoryKeys : StartRead(key) /\ UNCHANGED <<ivars, pvars, wvars, calc, bus, listener>>
    \/ ReadGetCache /\ UNCHANGED <<ivars, pvars, wvars, calc, bus, listener>>
    \/ ReadQuery /\ UNCHANGED <<ivars, pvars, wvars, calc, bus, listener>>
    \/ ReadSetCache /\ UNCHANGED <<ivars, pvars, wvars, calc, bus, listener>>
    \/ \E key \in InventoryKeys : Expire(key) /\ UNCHANGED <<ivars, pvars, wvars, calc, bus, listener>>

SpecKeys == InitKeys /\ [][NextKeys]_vars

(***************************************************************************)
(* The price service and the readers of price histories.  The store holds  *)
(* the one price of item 1 and, for item 2, a price that was replaced      *)
(* once, with the history row of that change; two more requests are to     *)
(* come.                                                                   *)
(***************************************************************************)
HistoryKeys == {k \in RollupKeys : k.kind = "price_history"}

InitHistory ==
    /\ InitInv
    /\ prices = << PriceRow(1, 1, 100),
                   [PriceRow(2, 2, 100) EXCEPT !.is_active = FALSE,
                                               !.effective_until = "utcnow"],
                   PriceRow(3, 2, 105) >>
    /\ price_history = << record_price_history(2, 100, 105) >>
    /\ price_cache = [i \in PriceItemIds |-> Absent]
    /\ ptask = [p \in Tasks |-> IdlePriceTask]
    /\ prequests = MaxPriceRequests - 2
    /\ price_bus_failed = FALSE
    /\ InitWS
    /\ calc = NoCalc

NextHistory ==
    \/ NextPrice
    \/ \E key \in HistoryKeys : StartRead(key) /\ UNCHANGED <<ivars, pvars, wvars, calc, bus, listener>>
    \/ ReadGetCache /\ UNCHANGED <<ivars, pvars, wvars, calc, bus, listener>>
    \/ ReadQuery /\ UNCHANGED <<ivars, pvars, wvars, calc, bus, listener>>
    \/ ReadSetCache /\ UNCHANGED <<ivars, pvars, wvars, calc, bus, listener>>
    \/ \E key \in HistoryKeys : Expire(key) /\ UNCHANGED <<ivars, pvars, wvars, calc, bus, listener>>

SpecHistory == InitHistory /\ [][NextHistory]_vars

(***************************************************************************)
(* Properties of the price service.                                        *)
(***************************************************************************)
PriceMutations == {"create_or_update", "update"}

\* No createOrUpdate or update of the item's price is between its arrival
\* and its return, and none has ended in an exception.
NoPriceMutationInFlight(item_id) ==
    \A q \in Tasks :
        (ptask[q].op \in PriceMutations /\ ptask[q].item_id = item_id) =>
            (ptask[q].pc = "done" /\ ptask[q].outcome \in {"ok", "absent"})

\* C5: a createOrUpdate on an item that has an active price, cached or not,
\* goes through; its first commit leaves the new row as the only active row
\* of the item, the prior row with is_active = false and effective_until
\* set; its second commit adds exactly one PriceHistory row, old = the prior
\* selling price, new = the new selling price.
C5_CreateOrUpdateReplacesActivePrice ==
    [][\A p \in Tasks :
          LET t == ptask[p]
              u == ptask'[p]
              prior == CurrentPriceRow(t.item_id)
          IN /\ (t.op = "create_or_update" /\ t.pc = "get_cache" /\ u # t /\ prior # NoRow) =>
                    u.pc # "done"
             /\ (t.op = "create_or_update" /\ t.pc = "commit_deactivate" /\ u # t
                   /\ ActivePrices(t.item_id) = {t.existing.id}) =>
                    /\ ActivePricesIn(prices', t.item_id) = {Len(prices')}
                    /\ prices'[Len(prices')].selling_price = t.selling_price
                    /\ ~prices'[t.existing.id].is_active
                    /\ prices'[t.existing.id].effective_until # "NULL"
             /\ (t.op = "create_or_update" /\ t.pc = "commit" /\ u # t /\ t.existing # NoRow) =>
                    /\ Len(price_history') = Len(price_history) + 1
                    /\ SubSeq(price_history', 1, Len(price_history)) = price_history
                    /\ price_history'[Len(price_history')].inventory_id = t.item_id
                    /\ price_history'[Len(price_history')].old_price = t.existing.selling_price
                    /\ price_history'[Len(price_history')].new_price = t.selling_price]_vars

\* C6: at most one price row per item is active, also when two
\* createOrUpdate calls for the same item run concurrently.
C6_AtMostOneActivePrice ==
    \A item_id \in PriceItemIds : Cardinality(ActivePrices(item_id)) <= 1

\* The cached value is the row the mutation t found, as it was before t wrote.
IsPreMutationValue(t, cached) ==
    /\ cached # Absent
    /\ t.existing # NoRow
    /\ cached.id = t.existing.id
    /\ t.op = "update" => (cached.selling_price = t.old_price /\ t.old_price # t.selling_price)

\* C8: while no publish has failed, a currentPrice answered from the cache
\* when no price mutation of the item is in flight returns the item's
\* current price row, and when a price mutation returns, the key
\* price:current:{item} holds no value from before that mutation.
C8_CurrentPriceAfterMutationIsFresh ==
    [][\A p \in Tasks :
          LET t == ptask[p]
              u == ptask'[p]
              current == CurrentPriceRow(t.item_id)
          IN ~price_bus_failed' =>
             /\ (t.op = "current" /\ t.pc = "get_cache" /\ u.pc = "done"
                   /\ NoPriceMutationInFlight(t.item_id)) =>
                    /\ current # NoRow
                    /\ u.result = PriceJsonRoundTrip(current)
             /\ (t.op \in PriceMutations /\ t.pc = "send_update" /\ u.pc = "done"
                   /\ u.outcome = "ok") =>
                    ~IsPreMutationValue(t, price_cache[t.item_id])]_vars

(***************************************************************************)
(* Properties of the cache layer under Redis faults (SpecFault).           *)
(***************************************************************************)
\* C11: a failing cache operation (get, set or delete) is never propagated to
\* the caller: no request ends with the error of the Redis command.
C11_CacheFailureNotPropagated ==
    \A p \in Tasks : itask[p].outcome # "cache_error"

\* C12: a cache get on a key whose stored value is not valid JSON returns
\* absent: the request that reads it goes on to the store (a warning is
\* logged), and no request ever ends with a decode error.
C12_MalformedEntryIsAMiss ==
    [][\A p \in Tasks :
          /\ itask'[p].outcome # "decode_error"
          /\ (/\ itask[p].pc = "get_cache"
              /\ item_cache[itask[p].item_id] = Malformed
              /\ itask'[p] # itask[p]
              /\ cache_faults' = cache_faults) =>
                 (itask'[p].pc = "db_select" /\ itask'[p].decode_warning)]_vars

\* A get that met a malformed entry has returned the row of the store.
C12_Witness ==
    \E p \in Tasks :
        /\ itask[p].op = "get"
        /\ itask[p].pc = "done"
        /\ itask[p].decode_warning
        /\ itask[p].outcome = "ok"
        /\ itask[p].result.kind = "row"

(***************************************************************************)
(* Properties of update_inventory and delete_inventory (SpecInv).          *)
(***************************************************************************)
\* C18: an update or a delete that looks up an id with no row in the store
\* returns absent (false for delete) at the end of the lookup: the store and
\* the cache are left as they are and no event is published.
C18_MissingIdIsAbsent ==
    [][\A p \in Tasks :
          (/\ itask[p].op \in {"update", "delete"}
           /\ itask[p].pc \in {"get_cache", "db_select"}
           /\ inventory[itask[p].item_id] = NoRow
           /\ itask'[p] # itask[p]) =>
              /\ \/ itask[p].pc = "get_cache" /\ itask'[p].pc = "db_select"
                 \/ itask'[p].pc = "done" /\ itask'[p].outcome = "absent"
              /\ inventory' = inventory
              /\ item_cache' = item_cache
              /\ itask'[p].events = << >>]_vars

\* C19: unless a publish failed, a delete that found its item, cached or not,
\* returns true with the row removed and exactly one inventory_update event
\* of action deleted published.
C19_DeleteOfExistingItem ==
    \A p \in Tasks :
        (/\ itask[p].op = "delete"
         /\ itask[p].pc = "done"
         /\ itask[p].outcome # "absent"
         /\ ~inv_bus_failed) =>
            /\ itask[p].outcome = "ok"
            /\ inventory[itask[p].item_id] = NoRow
            /\ itask[p].events = << [type |-> "inventory_update", action |-> "deleted"] >>

\* The item an update has looked up, at the step that ends the lookup: the
\* cached value of a hit, or the row just read when the cache is filled.
LookedUp(p) ==
    IF itask[p].pc = "get_cache" THEN item_cache[itask[p].item_id] ELSE itask[p].existing

EndsLookup(p) ==
    /\ itask[p].op = "update"
    /\ "sku" \in itask[p].data.set
    /\ \/ itask[p].pc = "get_cache" /\ item_cache[itask[p].item_id] # Absent
       \/ itask[p].pc = "set_cache"
    /\ itask'[p] # itask[p]

\* C20: an update whose sku differs from the current sku of the item and is
\* the sku of another stored item goes to the uniqueness check, which fails
\* with the duplicate condition and leaves store, cache and events alone; an
\* update whose sku is the current sku goes on without the check.
C20_SkuChangeIsChecked ==
    [][\A p \in Tasks :
          /\ (EndsLookup(p) /\ itask[p].data.sku # LookedUp(p).sku) =>
                 itask'[p].pc = "check_sku"
          /\ (EndsLookup(p) /\ itask[p].data.sku = LookedUp(p).sku) =>
                 itask'[p].pc = "db_update"
          /\ (/\ itask[p].pc = "check_sku"
              /\ SkuTaken(itask[p].data.sku, 0)
              /\ itask'[p] # itask[p]) =>
                 /\ itask'[p].pc = "done" /\ itask'[p].outcome = "conflict"
                 /\ inventory' = inventory
                 /\ item_cache' = item_cache
                 /\ itask'[p].events = << >>]_vars

(***************************************************************************)
(* Properties of the ConnectionManager (SpecWS).                           *)
(***************************************************************************)
\* The registries that hold connection c.
Holders(regs, c) == {t \in Types : c \in RangeOf(regs[t])}

Occurrences(s, x) == Cardinality({i \in 1..Len(s) : s[i] = x})

\* C13: a broadcast to a type changes no registry while it sends; when it
\* returns, exactly the connections whose send failed have been removed from
\* the registry of the type, the other registries are as they were, every
\* connection of the snapshot whose send succeeded has the message exactly
\* once, and the subscriber goes on (no exception has escaped).
C13_BroadcastRemovesOnlyFailed ==
    [][(sub.pc = "send" /\ sub' # sub) =>
          LET connection == Head(sub.snapshot)
              failed == RangeOf(sub.disconnected) \cup
                            (IF SendRaises(connection) THEN {connection} ELSE {})
              snapshot == RangeOf(sub.attempted) \cup RangeOf(sub.snapshot)
              Healthy(c) == c \notin failed
          IN IF Len(sub.snapshot) > 1
             THEN active_connections' = active_connections /\ sub'.pc = "send"
             ELSE /\ \A t \in Types \ {sub.type} :
                        active_connections'[t] = active_connections[t]
                  /\ active_connections'[sub.type] =
                        SelectSeq(active_connections[sub.type], Healthy)
                  /\ \A c \in snapshot \ failed :
                        Occurrences(conn'[c].received, sub.msg) = 1
                  /\ \A c \in failed : Occurrences(conn'[c].received, sub.msg) = 0
                  /\ sub'.pc \in {"send", "poll"}]_vars

\* A broadcast has returned that found a healthy and a failing connection in
\* its group, with a third connection registered in another group.
C13_Witness ==
    \E c1, c2, c3 \in Conns :
        /\ sub.log = << [id |-> 1, result |-> "relayed"] >>
        /\ conn[c1].group = conn[c2].group
        /\ conn[c3].group # conn[c1].group
        /\ conn[c1].received = <<1>> /\ c1 \in Registered
        /\ conn[c2].pc = "open" /\ conn[c2].broken
        /\ conn[c2].received = << >> /\ c2 \notin Registered
        /\ conn[c3].received = << >> /\ c3 \in Registered

C15_SubscriberCreatedOnce ==
    /\ subscriber_tasks <= 1
    /\ (subscriber_tasks = 1) <=> (\E c \in Conns : conn[c].pc \in {"open", "closed"})
    /\ is_listening <=> (subscriber_tasks = 1)
    /\ sub.subscribed = SubSeq(Channels, 1, Len(sub.subscribed))
    /\ sub.pc \in {"poll", "send"} => sub.subscribed = Channels

\* Every connection has connected and the one subscriber is listening.
C15_Witness ==
    /\ \A c \in Conns : conn[c].pc = "open"
    /\ subscriber_tasks = 1
    /\ sub.pc = "poll"
    /\ Len(sub.subscribed) = 5

\* The groups a message of the channel is meant for.
TargetGroups(channel) ==
    IF channel = "system:notifications" THEN Types ELSE RangeOf(Route(channel, << >>))

C17_MalformedPayloadDropped ==
    [][/\ \A c \in Conns : \A i \in 1..Len(conn'[c].received) :
             messages'[conn'[c].received[i]].kind = "object"
       /\ (/\ Len(messages') = Len(messages) + 1
           /\ messages'[Len(messages')].kind # "object") =>
              /\ conn' = conn
              /\ active_connections' = active_connections
              /\ sub'.pc = "poll"
              /\ sub'.log = Append(sub.log, [id |-> Len(messages'), result |-> "dropped"])]_vars

\* After a malformed message was dropped, a well-formed one has been relayed
\* to a connection.
C17_Witness ==
    \E c \in Conns :
        /\ Len(sub.log) = 2
        /\ sub.log[1].result = "dropped"
        /\ sub.log[2].result = "relayed"
        /\ sub.log[2].id \in RangeOf(conn[c].received)

(***************************************************************************)
(* Properties of the stock alert (SpecInv).                                *)
(***************************************************************************)
\* C21: an update that returns its item has published a stock alert exactly
\* when the item it returns has available_quantity <= min_stock_level, of
\* level critical when available_quantity <= 0 and warning otherwise, and
\* has published it before the inventory_update event of action updated; a
\* create or a delete never publishes a stock alert.
C21_StockAlertIffLowStock ==
    \A p \in Tasks :
        /\ itask[p].op \in {"create", "delete"} =>
              \A i \in 1..Len(itask[p].events) : itask[p].events[i].type # "stock_alert"
        /\ (itask[p].op = "update" /\ itask[p].pc = "done" /\ itask[p].outcome = "ok") =>
              LET item == itask[p].result
                  updated == [type |-> "inventory_update", action |-> "updated"]
              IN itask[p].events =
                    IF item.available_quantity <= item.min_stock_level
                    THEN << [type |-> "stock_alert",
                             action |-> IF item.available_quantity <= 0
                                        THEN "critical" ELSE "warning"],
                            updated >>
                    ELSE << updated >>

\* The update of the end-to-end scenario: stock 8, reserved 5, minimum 10
\* gives available 3 and a warning before the inventory_update.
C21_Witness ==
    \E p \in Tasks :
        /\ itask[p].op = "update" /\ itask[p].pc = "done" /\ itask[p].outcome = "ok"
        /\ itask[p].result.stock_quantity = 8
        /\ itask[p].result.available_quantity = 3
        /\ itask[p].result.min_stock_level = 10
        /\ Len(itask[p].events) = 2
        /\ itask[p].events[1] = [type |-> "stock_alert", action |-> "warning"]

(***************************************************************************)
(* Properties of the derived stock status (SpecStatus).                    *)
(***************************************************************************)
\* C22: for every available quantity and every minimum stock level >= 0,
\* stock_status is out_of_stock when available <= 0, low_stock when
\* 0 < available <= min_stock_level and in_stock otherwise, and it differs
\* from in_stock exactly when is_low_stock holds or available <= 0.
C22_StockStatusCases ==
    calc.pc = "done" =>
        LET available == calc.item.available_quantity
            minimum == calc.item.min_stock_level
        IN /\ calc.stock_status \in {"out_of_stock", "low_stock", "in_stock"}
           /\ (calc.stock_status = "out_of_stock") <=> (available <= 0)
           /\ (calc.stock_status = "low_stock") <=> (0 < available /\ available <= minimum)
           /\ (calc.stock_status = "in_stock") <=> (available > 0 /\ available > minimum)
           /\ (calc.stock_status # "in_stock") <=> (calc.is_low_stock \/ available <= 0)

\* A negative available quantity is out of stock and counts as low stock.
C22_Witness ==
    /\ calc.pc = "done"
    /\ calc.item.available_quantity < 0
    /\ calc.item.min_stock_level = 0
    /\ calc.stock_status = "out_of_stock"
    /\ calc.is_low_stock

(***************************************************************************)
(* Properties of price changes (SpecPrice).                                *)
(***************************************************************************)
\* C23: a createOrUpdate whose publishes succeed emits a price-change alert
\* exactly when a prior current price exists and the change is at least the
\* threshold (5%), and in every case runs through the cache invalidation and
\* emits exactly one price_update: created with no prior price, updated
\* otherwise.
C23_CreateOrUpdateEvents ==
    \A p \in Tasks :
        (ptask[p].op = "create_or_update" /\ ptask[p].pc = "done" /\ ~ptask[p].bus_failed) =>
            LET t == ptask[p]
                update(action) == [type |-> "price_update", action |-> action]
            IN /\ t.outcome = "ok"
               /\ t.events =
                    IF t.existing = NoRow THEN << update("created") >>
                    ELSE IF AbsDiff(t.selling_price, t.existing.selling_price) * 100
                               >= PRICE_CHANGE_THRESHOLD_PERCENT * t.existing.selling_price
                         THEN << PriceChangeAlert(t.existing.selling_price, t.selling_price),
                                 update("updated") >>
                         ELSE << update("updated") >>

C25_HistoryRowAmounts ==
    calc.pc = "done" =>
        LET row == calc.row
            percent == row.price_change_percent
        IN /\ row.old_price = calc.old_price
           /\ row.new_price = calc.new_price
           /\ row.price_change_amount = calc.new_price - calc.old_price
           /\ percent.den > 0
           /\ IF calc.old_price > 0
              THEN percent.num * calc.old_price
                     = (calc.new_price - calc.old_price) * 100 * percent.den
              ELSE percent.num = 0

\* A drop from 10 to 8 is recorded as -2 and -20%.
C25_Witness ==
    /\ calc.pc = "done"
    /\ calc.old_price = 10
    /\ calc.new_price = 8
    /\ calc.row.price_change_amount = 0 - 2
    /\ calc.row.price_change_percent.num = (0 - 20) * calc.row.price_change_percent.den

\* A row recorded from an old price of 0 has a percentage of 0.
C25_WitnessZeroOldPrice ==
    /\ calc.pc = "done"
    /\ calc.old_price = 0
    /\ calc.new_price = 5
    /\ calc.row.price_change_amount = 5
    /\ calc.row.price_change_percent.num = 0

(***************************************************************************)
(* Properties of the significance of a change (SpecSignificance).          *)
(***************************************************************************)
\* The absolute value of the row's percentage, in tenths; a missing
\* percentage counts as 0.
AbsTenths(row) ==
    IF row.price_change_percent = NullPercent THEN 0
    ELSE IF row.price_change_percent.num >= 0 THEN row.price_change_percent.num
    ELSE 0 - row.price_change_percent.num

UpdatedInPlace(t) ==
    /\ Len(prices') = Len(prices)
    /\ prices' = [prices EXCEPT ![t.existing.id].selling_price = t.selling_price]

\* The events of an update that changes the selling price from old_price.
UpdateEvents(old_price, new_price) ==
    IF AbsDiff(new_price, old_price) * 100 >= PRICE_CHANGE_THRESHOLD_PERCENT * old_price
    THEN << PriceChangeAlert(old_price, new_price),
            [type |-> "price_update", action |-> "updated"] >>
    ELSE << [type |-> "price_update", action |-> "updated"] >>

\* C27: update changes the current active row it found in place, the number
\* of price rows unchanged; when it returns having supplied a selling_price,
\* the PriceHistory row it recorded (old price, new price) is in the store,
\* none is left uncommitted, and the alert follows the rule of
\* createOrUpdate.
C27_UpdateInPlaceWithHistory ==
    [][\A p \in Tasks :
          LET t == ptask[p]
              u == ptask'[p]
          IN /\ (t.op = "update" /\ t.pc = "db_update" /\ u # t) => UpdatedInPlace(t)
             /\ (t.op = "update" /\ t.pc # "done" /\ u.pc = "done" /\ u.outcome = "ok") =>
                   /\ t.pending = NoHistory
                   /\ \E i \in 1..Len(price_history') :
                         /\ price_history'[i].inventory_id = t.item_id
                         /\ price_history'[i].old_price = t.old_price
                         /\ price_history'[i].new_price = t.selling_price
                   /\ u.events = UpdateEvents(t.old_price, t.selling_price)]_vars

\* C28: PriceHistory is append-only: every step leaves the rows that are in
\* the table as they are and in place; rows are only added after them.
C28_HistoryAppendOnly ==
    [][/\ Len(price_history') >= Len(price_history)
       /\ SubSeq(price_history', 1, Len(price_history)) = price_history]_vars

\* Two changes have been recorded one after the other; the first row is still
\* what it was.
C28_Witness ==
    /\ Len(price_history) = 2
    /\ price_history[1].old_price = 100
    /\ price_history[1].new_price = 105
    /\ price_history[2].old_price = 105
    /\ price_history[2].new_price = 130

(***************************************************************************)
(* Properties of the current-price query (SpecCurrent).                    *)
(***************************************************************************)
\* The rows of the item that are active and effective at the time of the read.
Eligible == { i \in 1..Len(calc.rows) : /\ calc.rows[i].inventory_id = calc.item_id
                                         /\ calc.rows[i].is_active
                                         /\ calc.rows[i].effective_from.at <= calc.utcnow }

\* C29: on a cache miss currentPrice returns, among the item's active rows
\* with effective_from <= now, the one with the greatest effective_from,
\* the highest id among rows of equal effective_from, and nothing when there
\* is no such row.
C29_CurrentPriceSelection ==
    calc.pc = "done" =>
        IF Eligible = {} THEN calc.price = NoRow
        ELSE /\ calc.price # NoRow
             /\ calc.price.id \in Eligible
             /\ \A j \in Eligible :
                   \/ calc.rows[j].effective_from.at < calc.price.effective_from.at
                   \/ /\ calc.rows[j].effective_from.at = calc.price.effective_from.at
                      /\ j <= calc.price.id

(***************************************************************************)
(* Properties of the significant-changes query (SpecChanges).              *)
(***************************************************************************)
\* The signed change of a row is at least percent % of its old price.
ChangeAtLeast(row, percent) ==
    (row.new_price - row.old_price) * 100 >= percent * row.old_price

\* C30: significantChanges(thresholdPercent, since) returns exactly the
\* PriceHistory rows with changed_at >= since whose signed percentage change
\* is at least the threshold, each once, ordered by percentage descending;
\* for a positive threshold no price drop is returned.
C30_SignificantChangesSigned ==
    calc.pc = "done" =>
        LET n == Len(calc.changes)
            returned == { calc.changes[a] : a \in 1..n }
        IN /\ returned = { i \in 1..Len(calc.rows) :
                             /\ calc.rows[i].changed_at >= calc.start_date
                             /\ ChangeAtLeast(calc.rows[i], calc.threshold_percent) }
           /\ Cardinality(returned) = n
           /\ \A a, b \in 1..n :
                 LET first == calc.rows[calc.changes[a]]
                     second == calc.rows[calc.changes[b]]
                 IN a < b => ((first.new_price - first.old_price) * second.old_price
                                >= (second.new_price - second.old_price) * first.old_price)
           /\ calc.threshold_percent > 0 =>
                 \A i \in returned : calc.rows[i].new_price > calc.rows[i].old_price

\* With a threshold of 5% and rows of +5%, +10% and -20% that are recent
\* enough, the +10% row is returned before the +5% row and the drop is not
\* returned.
C30_Witness ==
    /\ calc.pc = "done"
    /\ calc.threshold_percent = 5
    /\ Len(calc.rows) = 3
    /\ calc.rows[1].new_price = 105
    /\ calc.rows[2].new_price = 80
    /\ calc.rows[3].new_price = 110
    /\ \A i \in 1..3 : calc.rows[i].changed_at >= calc.start_date
    /\ calc.changes = << 3, 1 >>

C32_FailedSendIsTerminal ==
    [][(sub.pc = "send" /\ sub' # sub) =>
          LET connection == Head(sub.snapshot)
          IN /\ connection \notin RangeOf(sub.disconnected)
             /\ SendRaises(connection) =>
                   connection \notin UNION {RangeOf(active_connections'[t]) : t \in Types}
             /\ sub'.pc \in {"send", "poll"}]_vars

(***************************************************************************)
(* Properties of the events of the services (SpecEvent).                   *)
(***************************************************************************)
\* C33: an event of a service is broadcast directly to the connections the
\* process holds in the matching type and is also published to the bus,
\* with no de-duplication: once the subscriber of the process has relayed
\* the event, a connection that was held in the matching type when the
\* event was emitted has been sent it twice.
C33_EventSentTwice ==
    \A k \in 1..Len(sub.log) :
        sub.log[k].result = "relayed" =>
            /\ bus[k].direct = bus[k].held
            /\ \A c \in bus[k].held : Occurrences(conn[c].received, k) = 2

(***************************************************************************)
(* Properties of the order of writes, invalidation and events.             *)
(***************************************************************************)
\* The positions of an operation that lie after its cache invalidation.
InventoryAfterInvalidation == {"send_alert", "send_update"}
PriceAfterInvalidation == {"send_update"}

\* C34: every event of a mutating operation is published only after all its
\* store writes, the price history record included, are committed and after
\* the cache keys of the entity have been invalidated: a step that publishes
\* an event is taken past the invalidation with nothing left uncommitted.
C34_PublishAfterCommitAndInvalidate ==
    [][\A p \in Tasks :
          /\ Len(itask'[p].events) > Len(itask[p].events) =>
                itask[p].pc \in InventoryAfterInvalidation
          /\ Len(ptask'[p].events) > Len(ptask[p].events) =>
                /\ ptask[p].pc \in PriceAfterInvalidation
                /\ ptask[p].pending = NoHistory]_vars

\* C35: while the listening loop runs under a fair scheduler, every message
\* published on any of the five channels is eventually handled, whatever
\* the other channels do: an idle channel and a channel whose read raises
\* only pass the turn to the next subscriber.
C35_EveryMessageHandled ==
    \A id \in 1..MaxPublished :
        (Len(listener.published) >= id) ~> (id \in listener.handled)

\* A message of the last channel has been handled although no other channel
\* ever had a message and a read has raised.
C35_Witness ==
    /\ Len(listener.published) = 1
    /\ listener.published[1] = Len(Channels)
    /\ 1 \in listener.handled
    /\ listener.errors > 0

\* The same broadcast_to_type call is running before and after the step.
SameBroadcast ==
    /\ sub.pc = "send" /\ sub'.pc = "send"
    /\ sub'.msg = sub.msg /\ sub'.type = sub.type

\* list.remove of every connection of the sequence failed, wherever it is.
WithoutFailed(connections, failed) ==
    LET Kept(c) == c \notin RangeOf(failed)
    IN SelectSeq(connections, Kept)

\* C36: a broadcast sends to exactly the connections its group held when the
\* snapshot was taken: the snapshot is the registry of the type at that
\* moment and does not change while the broadcast is suspended (a connection
\* registered meanwhile is not in it, a connection disconnected meanwhile
\* stays in it), each step attempts the next connection of the snapshot and
\* nothing else delivers, and the removals at the end take out the failed
\* connections that are still registered and do nothing for the others.
C36_BroadcastToSnapshot ==
    [][/\ (sub'.pc = "send" /\ ~SameBroadcast) =>
              /\ sub'.snapshot = active_connections'[sub'.type]
              /\ sub'.attempted = << >>
       /\ SameBroadcast =>
              sub'.attempted \o sub'.snapshot = sub.attempted \o sub.snapshot
       /\ (sub.pc = "send" /\ sub' # sub) =>
              LET connection == Head(sub.snapshot)
                  failed == IF SendRaises(connection)
                            THEN Append(sub.disconnected, connection)
                            ELSE sub.disconnected
              IN /\ SameBroadcast => sub'.attempted = Append(sub.attempted, connection)
                 /\ \A c \in Conns :
                       conn'[c].received =
                           IF c = connection /\ ~SendRaises(c)
                           THEN Append(conn[c].received, sub.msg)
                           ELSE conn[c].received
                 /\ Len(sub.snapshot) = 1 =>
                       /\ \A t \in Types :
                             active_connections'[t] =
                                 WithoutFailed(active_connections[t], failed)
                       /\ sub'.pc \in {"send", "poll"}
                       /\ sub'.pc = "poll" =>
                             sub'.log[Len(sub'.log)].result \in {"relayed", "runtime_error"}
       /\ (sub.pc # "send" \/ sub' = sub) =>
              \A c \in Conns : conn'[c].received = conn[c].received]_vars

\* A broadcast is under way; a connection of its snapshot that had been
\* disconnected explicitly was attempted, and a connection registered in the
\* group after the snapshot is not part of the broadcast.
C36_Witness ==
    /\ sub.pc = "send"
    /\ \E c \in RangeOf(sub.attempted) :
          /\ conn[c].pc = "closed"
          /\ c \in RangeOf(sub.disconnected)
          /\ c \notin Registered
    /\ \E c \in RangeOf(active_connections[sub.type]) :
          c \notin RangeOf(sub.attempted \o sub.snapshot)

\* The list-page and rollup keys a mutation is to delete: inventory:list:{skip}:100
\* for skip in {0, 100, ..., 900} and alerts:low_stock:{t} for t in {5, 10, 20, 50}.
EnumeratedKey(k) ==
    \/ k.kind = "inventory_list" /\ k.limit = 100 /\ k.skip \in {0, 100, 200, 300, 400,
                                                                500, 600, 700, 800, 900}
    \/ k.kind = "low_stock_items" /\ k.threshold \in {5, 10, 20, 50}

\* Every write to table "inventory" is followed by the invalidation, which
\* deletes the entity key of the mutated id (update and delete only) and the
\* enumerated list and low-stock keys and leaves every other entry as it is.
MutationDeletesEnumeratedKeys ==
    /\ \A p \in Tasks :
          (itask[p].pc = "invalidate" /\ itask'[p] # itask[p]) =>
              /\ \A i \in ItemIds :
                    item_cache'[i] =
                        IF itask[p].op \in {"update", "delete"} /\ i = itask[p].item_id
                        THEN Absent ELSE item_cache[i]
              /\ \A k \in RollupKeys :
                    rollup_cache'[k] = IF EnumeratedKey(k) THEN Absent ELSE rollup_cache[k]
    /\ inventory' # inventory =>
          \E p \in Tasks : itask[p].pc # "invalidate" /\ itask'[p].pc = "invalidate"

\* C37: every inventory mutation deletes exactly the entity key of the
\* mutated id (update and delete only), the list keys with limit 100 and skip
\* in {0, 100, ..., 900} and the low-stock keys of thresholds {5, 10, 20, 50};
\* every other entry is left unchanged, and as long as its TTL has not run
\* out a read of its key is served the entry.
C37_InvalidationFrame ==
    [][/\ MutationDeletesEnumeratedKeys
       /\ (/\ rtask.pc = "get_cache" /\ rtask' # rtask
           /\ ~EnumeratedKey(rtask.key)
           /\ rollup_cache[rtask.key] # Absent) =>
             /\ rtask'.pc = "done"
             /\ rtask'.from_cache
             /\ rtask'.result = rollup_cache[rtask.key]]_vars

\* The history keys a price mutation for the item is to delete:
\* price:history:{item_id}:{d} for d in {7, 30, 90}.
EnumeratedHistoryKey(k, item_id) ==
    k.kind = "price_history" /\ k.item_id = item_id /\ k.days \in {7, 30, 90}

\* The invalidation of a price mutation deletes price:current:{i} and the
\* enumerated history keys of item i and leaves every other entry as it is.
PriceMutationDeletesEnumeratedKeys ==
    \A p \in Tasks :
        (ptask[p].pc = "invalidate" /\ ptask'[p] # ptask[p]) =>
            /\ \A i \in PriceItemIds :
                  price_cache'[i] = IF i = ptask[p].item_id THEN Absent ELSE price_cache[i]
            /\ \A k \in RollupKeys :
                  rollup_cache'[k] = IF EnumeratedHistoryKey(k, ptask[p].item_id)
                                     THEN Absent ELSE rollup_cache[k]

\* C38: a price mutation for item i deletes exactly price:current:i and
\* price:history:i:d for d in {7, 30, 90}; a cached history of any other
\* window is left unchanged, and as long as its TTL has not run out
\* history(i, since) for that window returns the cached rows.
C38_PriceInvalidationFrame ==
    [][/\ PriceMutationDeletesEnumeratedKeys
       /\ (/\ rtask.pc = "get_cache" /\ rtask' # rtask
           /\ rtask.key.kind = "price_history"
           /\ rtask.key.days \notin {7, 30, 90}
           /\ rollup_cache[rtask.key] # Absent) =>
             /\ rtask'.pc = "done"
             /\ rtask'.from_cache
             /\ rtask'.result = rollup_cache[rtask.key]]_vars

\* C39: once the subscriber task has ended, is_listening stays true, the
\* stats report is_redis_listening = true with subscriber_task_running =
\* false, no later connect starts another subscriber task, and no published
\* event is relayed to a connection of the manager any more.
C39_DeadSubscriberStaysDead ==
    /\ [](sub.pc = "closed" =>
             /\ is_listening
             /\ get_connection_stats.is_redis_listening = TRUE
             /\ get_connection_stats.subscriber_task_running = "False")
    /\ [][sub.pc = "closed" =>
             /\ sub' = sub
             /\ subscriber_tasks' = subscriber_tasks
             /\ messages' = messages
             /\ \A c \in Conns : conn'[c].received = conn[c].received]_vars

\* The subscriber has ended; a connection was accepted after that without a
\* new task being created, and an event published for the group of an open
\* connection has not reached it.
C39_Witness ==
    /\ sub.pc = "closed"
    /\ subscriber_tasks = 1
    /\ Cardinality({c \in Conns : conn[c].pc = "open"}) >= 2
    /\ \E k \in 1..Len(bus) :
          \E c \in bus[k].held : conn[c].pc = "open" /\ conn[c].received = << >>

=============================================================================
